---- MODULE Spec2Model ----
(***************************************************************************)
(* A model of fox-core's content pipeline (crates/fox-core):               *)
(*   - accessibility.rs: AXTree (get / children / walk / iter_depth_first) *)
(*     and MarkdownConverter (ax_tree_to_markdown);                        *)
(*   - markdown.rs: the HTML-to-Markdown renderer and clean_markdown.      *)
(* A Rust String is a sequence of one-character strings; Option<T> is a    *)
(* sequence of length 0 (None) or 1 (Some).                                *)
(***************************************************************************)
EXTENDS Integers, Sequences, FiniteSets, TLC

\* ------------------------------------------------------------------ bounds
\* longest input string handed to the cleanup passes
MaxLen == 6
\* call frames the thread stack holds before the process aborts
MaxStackDepth == 6
\* elements the iterator's stack and the collected Vec hold before allocation fails
MaxCollect == 8

VARIABLES
    axtree,      \* the AXTree handed to walk / iter_depth_first / ax_tree_to_markdown
    walk_stack,  \* walk_recursive: the pending calls, innermost first
    walked,      \* the (node_id, depth) pairs the visitor f has been called with
    walk_pc,
    iter_stack,  \* DepthFirstIterator.stack
    yielded,     \* the node ids next() has returned, in order
    iter_pc,
    converter,   \* MarkdownConverter: output, links, list_depth, list_counters, ...
    ax_stack,    \* convert_node: the pending calls and continuations, innermost first
    ax_pc,
    cl_fn,       \* which cleanup pass is applied: "cleanup_output" | "clean_markdown"
    cl_input,    \* the string the first pass was given
    cl_cur,      \* the string after cl_passes applications
    cl_prev,     \* the string before the last application
    cl_passes,
    document,    \* the parsed fragment's root element, given to convert_element
    base_url,    \* the Url links are resolved against
    md_state,          \* html_to_markdown_with_base: output buffers, links, Context, table locals
    md_stack,    \* convert_element / convert_tag: pending calls and continuations
    md_pc,
    page,        \* extract_content: the document Html::parse_document gave
    found,       \* find_main_content's result, once it returned
    extracted,   \* extract_content's result, once it returned
    ex_pc,
    plain,       \* Page::to_plain_text's result, once it returned
    pl_pc,
    fetcher,     \* Fetcher: config.javascript, browser.is_some(), extraction_method, ...
    web,         \* what the URL serves: its HTML and its accessibility tree
    fetch_pc,
    net,         \* how often the browser loaded the URL and the HTTP client requested it
    html,        \* the page source the fetch obtained, once it has
    tree_result, \* how fetch_ax_tree ended: "none" | "ok" | "err"
    fetched,     \* Fetcher::fetch's result, once it returned
    history,     \* History: entries, position, session_stack, max_entries
    hist_log,    \* the calls made on history, each with its argument and returned value
    tab_manager, \* TabManager: tabs, current
    tab_prev,    \* the TabManager before the last call
    tab_call,    \* the last call made on the TabManager
    tab_serial,  \* how many tabs have been created
    status,      \* App.status: the message of the status line, if any
    key          \* the key handle_normal_key handled last, if the last call was a key

walk_vars == <<walk_stack, walked, walk_pc>>
iter_vars == <<iter_stack, yielded, iter_pc>>
ax_vars == <<converter, ax_stack, ax_pc>>
cl_vars == <<cl_fn, cl_input, cl_cur, cl_prev, cl_passes>>
md_vars == <<document, base_url, md_state, md_stack, md_pc>>
ex_vars == <<page, found, extracted, ex_pc>>
pl_vars == <<plain, pl_pc>>
fetch_vars == <<fetcher, web, fetch_pc, net, html, tree_result, fetched>>
hist_vars == <<history, hist_log>>
tab_vars == <<tab_manager, tab_prev, tab_call, tab_serial>>
app_vars == <<status, key>>
after_pl == <<fetch_vars, hist_vars, tab_vars, app_vars>>
after_ex == <<pl_vars, after_pl>>
outer_vars == <<ex_vars, after_ex>>
vars == <<axtree, walk_vars, iter_vars, ax_vars, cl_vars, md_vars, outer_vars>>

\* ----------------------------------------------------------------- Option
None == <<>>
Some(x) == <<x>>
IsSome(o) == o # <<>>
Unwrap(o) == o[1]
unwrap_or(o, d) == IF o = <<>> THEN d ELSE o[1]

\* ---------------------------------------------------------------- strings
NL == "\n"
SP == " "
\* the backquote character (U+0060), which a TLA+ string literal cannot hold
BQ == "backquote"
\* char::is_whitespace, over the characters the model uses
is_whitespace(c) == c \in {" ", "\n", "\t"}

Min(a, b) == IF a < b THEN a ELSE b
Max(a, b) == IF a > b THEN a ELSE b

RECURSIVE repeat(_, _)
\* str::repeat
repeat(s, n) == IF n <= 0 THEN <<>> ELSE s \o repeat(s, n - 1)

starts_with(s, p) == Len(s) >= Len(p) /\ SubSeq(s, 1, Len(p)) = p
ends_with(s, p) == Len(s) >= Len(p) /\ SubSeq(s, Len(s) - Len(p) + 1, Len(s)) = p
contains(s, p) == \E i \in 1..(Len(s) - Len(p) + 1) : SubSeq(s, i, i + Len(p) - 1) = p

RECURSIVE trim_start(_)
trim_start(s) == IF s # <<>> /\ is_whitespace(Head(s)) THEN trim_start(Tail(s)) ELSE s
RECURSIVE trim_end(_)
trim_end(s) ==
    IF s # <<>> /\ is_whitespace(s[Len(s)]) THEN trim_end(SubSeq(s, 1, Len(s) - 1)) ELSE s
\* str::trim
trim(s) == trim_end(trim_start(s))
is_blank(s) == trim(s) = <<>>

\* the index of the first match of p in s (s contains p)
find(s, p) ==
    CHOOSE i \in 1..(Len(s) - Len(p) + 1) :
        /\ SubSeq(s, i, i + Len(p) - 1) = p
        /\ \A k \in 1..(i - 1) : SubSeq(s, k, k + Len(p) - 1) # p

RECURSIVE replace(_, _, _)
\* str::replace: every non-overlapping match of p, left to right
replace(s, p, r) ==
    IF ~contains(s, p) THEN s
    ELSE LET i == find(s, p)
         IN SubSeq(s, 1, i - 1) \o r \o replace(SubSeq(s, i + Len(p), Len(s)), p, r)

RECURSIVE LeadingNewlines(_)
LeadingNewlines(s) == IF s # <<>> /\ Head(s) = NL THEN 1 + LeadingNewlines(Tail(s)) ELSE 0

RECURSIVE collapse_newlines(_)
\* Regex \n{3,} replaced by "\n\n": every maximal run of three or more newlines
collapse_newlines(s) ==
    IF ~contains(s, <<NL, NL, NL>>) THEN s
    ELSE LET i == find(s, <<NL, NL, NL>>)
             k == LeadingNewlines(SubSeq(s, i, Len(s)))
         IN SubSeq(s, 1, i - 1) \o <<NL, NL>> \o collapse_newlines(SubSeq(s, i + k, Len(s)))

RECURSIVE replace_until_gone(_)
\* while output.contains("\n\n\n") { output = output.replace("\n\n\n", "\n\n") }
replace_until_gone(s) ==
    IF contains(s, <<NL, NL, NL>>)
    THEN replace_until_gone(replace(s, <<NL, NL, NL>>, <<NL, NL>>))
    ELSE s

\* Ensure single trailing newline
push_final_newline(s) == IF s # <<>> /\ ~ends_with(s, <<NL>>) THEN s \o <<NL>> ELSE s

\* A single replace pass instead of the loop: runs of four newlines keep three.
cleanup_output_once(out) ==
    push_final_newline(trim(replace(out, <<NL, NL, NL>>, <<NL, NL>>)))
\* MarkdownConverter::cleanup_output
cleanup_output(out) == push_final_newline(trim(replace_until_gone(out)))

\* The pattern \n{3} instead of \n{3,}: each three newlines become two.
clean_markdown_three(md) == push_final_newline(trim(replace(md, <<NL, NL, NL>>, <<NL, NL>>)))
\* clean_markdown
clean_markdown(md) == push_final_newline(trim(collapse_newlines(md)))

\* All strings over alphabet A of length at most n
RECURSIVE StringsUpTo(_, _)
StringsUpTo(A, n) ==
    IF n = 0 THEN {<<>>}
    ELSE LET shorter == StringsUpTo(A, n - 1) IN
         shorter \cup {<<c>> \o s : c \in A, s \in {t \in shorter : Len(t) = n - 1}}

\* --------------------------------------------------------- cleanup passes
CleanupAlphabet == {NL, SP, "a"}

CleanupIdle ==
    /\ cl_fn = "none"
    /\ cl_input = <<>>
    /\ cl_cur = <<>>
    /\ cl_prev = <<>>
    /\ cl_passes = 0

\* self.cleanup_output() applied to the buffer once more
CleanupOutputPass ==
    /\ cl_fn = "cleanup_output"
    /\ cl_passes < 2
    /\ cl_prev' = cl_cur
    /\ cl_cur' = cleanup_output(cl_cur)
    /\ cl_passes' = cl_passes + 1
    /\ UNCHANGED <<cl_fn, cl_input, axtree, outer_vars, walk_vars, iter_vars, ax_vars, md_vars>>

\* clean_markdown(&output) applied once more
CleanMarkdownPass ==
    /\ cl_fn = "clean_markdown"
    /\ cl_passes < 2
    /\ cl_prev' = cl_cur
    /\ cl_cur' = clean_markdown(cl_cur)
    /\ cl_passes' = cl_passes + 1
    /\ UNCHANGED <<cl_fn, cl_input, axtree, outer_vars, walk_vars, iter_vars, ax_vars, md_vars>>

\* ------------------------------------------------------------------ AXTree
\* AXNode, without the two fields the tree's shape decides (node_id, child_ids)
Node(role, name, level, url, ignored, properties) ==
    [role |-> role, name |-> name, value |-> None, description |-> None,
     level |-> level, url |-> url, focused |-> FALSE, ignored |-> ignored,
     properties |-> properties]

NoProps == [k \in {} |-> "true"]
Props(keys) == [k \in keys |-> "true"]

\* A template's "?" stands for the digit of the node's id, so that every node built
\* from it carries a name and a url of its own.
IdDigit(id) == CASE id = "n1" -> "1" [] id = "n2" -> "2" [] id = "n3" -> "3"
                 [] id = "n4" -> "4" [] OTHER -> "0"
StampStr(str, id) == [i \in 1..Len(str) |-> IF str[i] = "?" THEN IdDigit(id) ELSE str[i]]
StampOpt(opt, id) == IF opt = None THEN None ELSE Some(StampStr(Unwrap(opt), id))
Stamp(data, id) == [data EXCEPT !.name = StampOpt(@, id), !.url = StampOpt(@, id)]

\* An AXTree from a shape (root_id, and each node's child_ids) and each node's data
MkTree(shape, rootNode, data) ==
    [root_id |-> shape.root_id,
     nodes |-> [id \in DOMAIN shape.child_ids |->
                  [node_id |-> id, child_ids |-> shape.child_ids[id]]
                  @@ (IF id = "n0" THEN rootNode ELSE Stamp(data[id], id))]]

Trees(shapes, rootNodes, templates) ==
    UNION {{MkTree(sh, rn, data) :
                rn \in rootNodes, data \in [(DOMAIN sh.child_ids) \ {"n0"} -> templates]} :
           sh \in shapes}

\* AXTree::new
EmptyTree == [root_id |-> None, nodes |-> [id \in {} |-> 0]]

\* AXTree::get
get(id) == IF id \in DOMAIN axtree.nodes THEN Some(axtree.nodes[id]) ELSE None

\* AXTree::root
root == IF axtree.root_id = None THEN None ELSE get(Unwrap(axtree.root_id))

RECURSIVE TakeWhileResolved(_)
TakeWhileResolved(ids) ==
    IF ids = <<>> \/ get(Head(ids)) = None THEN <<>>
    ELSE <<Head(ids)>> \o TakeWhileResolved(Tail(ids))
\* A children() that stops at the first id that does not resolve (map_while).
children_until_dangling(node) ==
    LET ids == TakeWhileResolved(node.child_ids) IN
    [i \in 1..Len(ids) |-> axtree.nodes[ids[i]]]
\* AXTree::children: filter_map over child_ids
children(node) ==
    LET ids == SelectSeq(node.child_ids, LAMBDA id : get(id) # None) IN
    [i \in 1..Len(ids) |-> Unwrap(get(ids[i]))]

Reverse(s) == [i \in 1..Len(s) |-> s[Len(s) + 1 - i]]

\* ------------------------------------------------- AXTree::walk (recursive)
WalkIdle ==
    /\ walk_stack = <<>>
    /\ walked = <<>>
    /\ walk_pc = "idle"

WalkInit ==
    /\ walk_stack = <<>>
    /\ walked = <<>>
    /\ walk_pc = "start"

\* walk: if let Some(root) = self.root() { self.walk_recursive(root, 0, &mut f) }
Walk ==
    /\ walk_pc = "start"
    /\ IF root = None
       THEN /\ walk_pc' = "done"
            /\ walk_stack' = <<>>
       ELSE /\ walk_pc' = "recursing"
            /\ walk_stack' = <<[id |-> Unwrap(root).node_id, depth |-> 0]>>
    /\ UNCHANGED <<walked, axtree, outer_vars, iter_vars, ax_vars, cl_vars, md_vars>>

\* walk_recursive(node, depth): f(node, depth), then one call per child, in order.
\* A call deeper than the thread's stack aborts the process.
WalkRecursive ==
    /\ walk_pc = "recursing"
    /\ walk_stack # <<>>
    /\ LET call == Head(walk_stack)
           node == axtree.nodes[call.id]
           kids == children(node)
       IN IF call.depth + 1 > MaxStackDepth
          THEN /\ walk_pc' = "stack_overflow"
               /\ UNCHANGED <<walk_stack, walked>>
          ELSE /\ walked' = Append(walked, <<call.id, call.depth>>)
               /\ walk_stack' =
                    [i \in 1..Len(kids) |-> [id |-> kids[i].node_id, depth |-> call.depth + 1]]
                    \o Tail(walk_stack)
               /\ UNCHANGED walk_pc
    /\ UNCHANGED <<axtree, outer_vars, iter_vars, ax_vars, cl_vars, md_vars>>

\* the outermost walk_recursive returns
WalkReturn ==
    /\ walk_pc = "recursing"
    /\ walk_stack = <<>>
    /\ walk_pc' = "done"
    /\ UNCHANGED <<walk_stack, walked, axtree, outer_vars, iter_vars, ax_vars, cl_vars, md_vars>>

\* ------------------------------------------------------ DepthFirstIterator
IterIdle ==
    /\ iter_stack = <<>>
    /\ yielded = <<>>
    /\ iter_pc = "idle"

IterInit ==
    /\ iter_stack = <<>>
    /\ yielded = <<>>
    /\ iter_pc = "start"

\* DepthFirstIterator::new: the stack holds root_id, when there is one
IterNew ==
    /\ iter_pc = "start"
    /\ iter_stack' = axtree.root_id
    /\ iter_pc' = "iterating"
    /\ UNCHANGED <<yielded, axtree, outer_vars, walk_vars, ax_vars, cl_vars, md_vars>>

\* DepthFirstIterator::next, called by collect() until it returns None.
\* The last element of iter_stack is the top of the Vec.
IterNext ==
    /\ iter_pc = "iterating"
    /\ IF iter_stack = <<>>
       THEN \* self.stack.pop()? is None
            /\ iter_pc' = "done"
            /\ UNCHANGED <<iter_stack, yielded>>
       ELSE LET id == iter_stack[Len(iter_stack)]
                popped == SubSeq(iter_stack, 1, Len(iter_stack) - 1)
            IN IF get(id) = None
               THEN \* self.tree.nodes.get(id)? is None: next() returns None
                    /\ iter_stack' = popped
                    /\ iter_pc' = "done"
                    /\ UNCHANGED yielded
               ELSE LET node == Unwrap(get(id))
                        pushed == popped \o Reverse(node.child_ids)
                    IN IF Len(pushed) + Len(yielded) + 1 > MaxCollect
                       THEN /\ iter_pc' = "out_of_memory"
                            /\ UNCHANGED <<iter_stack, yielded>>
                       ELSE /\ iter_stack' = pushed
                            /\ yielded' = Append(yielded, id)
                            /\ UNCHANGED iter_pc
    /\ UNCHANGED <<axtree, outer_vars, walk_vars, ax_vars, cl_vars, md_vars>>


\* ------------------------------------------------------ MarkdownConverter
\* MarkdownConverter::new
NewConverter ==
    [output |-> <<>>, links |-> <<>>, list_depth |-> 0, list_counters |-> <<>>,
     in_code_block |-> FALSE, last_was_block |-> FALSE]

push_str(c, str) == [c EXCEPT !.output = @ \o str]

RECURSIVE to_string(_)
\* usize::to_string (format!("{}", num))
to_string(n) ==
    LET digit == <<"0", "1", "2", "3", "4", "5", "6", "7", "8", "9">>[(n % 10) + 1] IN
    IF n < 10 THEN <<digit>> ELSE to_string(n \div 10) \o <<digit>>

\* format!("{:width$}", cell): left-aligned, padded with spaces up to width
pad_to(cell, width) == cell \o repeat(<<SP>>, width - Len(cell))

RECURSIVE lines(_)
\* str::lines: split at each "\n"; a final empty line is not produced
lines(str) ==
    IF str = <<>> THEN <<>>
    ELSE IF \E i \in 1..Len(str) : str[i] = NL
         THEN LET i == CHOOSE j \in 1..Len(str) :
                          str[j] = NL /\ \A k \in 1..(j - 1) : str[k] # NL
              IN <<SubSeq(str, 1, i - 1)>> \o lines(SubSeq(str, i + 1, Len(str)))
         ELSE <<str>>

RECURSIVE collect_text(_, _)
RECURSIVE collect_text_children(_, _)
\* collect_text at nesting `depth`: the text of the StaticText descendants, in order.
\* overflow: the recursion went deeper than the thread's stack.
collect_text(node, depth) ==
    IF depth > MaxStackDepth THEN [text |-> <<>>, overflow |-> TRUE]
    ELSE IF node.role = "StaticText"
         THEN [text |-> unwrap_or(node.name, <<>>), overflow |-> FALSE]
    ELSE IF node.role = "InlineTextBox" THEN [text |-> <<>>, overflow |-> FALSE]
    ELSE collect_text_children(children(node), depth + 1)
collect_text_children(kids, depth) ==
    IF kids = <<>> THEN [text |-> <<>>, overflow |-> FALSE]
    ELSE LET first == collect_text(Head(kids), depth)
             rest == collect_text_children(Tail(kids), depth)
         IN [text |-> first.text \o rest.text, overflow |-> first.overflow \/ rest.overflow]

\* get_node_text: the node's name when non-blank, else the collected text when non-blank
get_node_text(node, depth) ==
    IF node.name # None /\ ~is_blank(Unwrap(node.name))
    THEN [text |-> node.name, overflow |-> FALSE]
    ELSE LET got == collect_text(node, depth) IN
         [text |-> IF is_blank(got.text) THEN None ELSE Some(got.text),
          overflow |-> got.overflow]

\* ensure_block_spacing
ensure_block_spacing(c) ==
    IF c.output # <<>> /\ ~c.last_was_block
    THEN IF ~ends_with(c.output, <<NL, NL>>)
         THEN IF ends_with(c.output, <<NL>>)
              THEN push_str(c, <<NL>>)
              ELSE push_str(c, <<NL, NL>>)
         ELSE c
    ELSE c

\* should_skip_but_recurse
should_skip_but_recurse(node) == node.role \in {"none", "presentation", "generic"}

\* should_skip_node
should_skip_node(node) == node.ignored \/ node.role \in {"LineBreak", "InlineTextBox"}

\* ---- convert_table
CellRoles == {"cell", "columnheader", "rowheader", "gridcell"}

RECURSIVE table_row_nodes(_)
\* the row nodes of a table, over its row and rowgroup children
table_row_nodes(kids) ==
    IF kids = <<>> THEN <<>>
    ELSE LET child == Head(kids) IN
         (IF child.role = "rowgroup"
          THEN SelectSeq(children(child), LAMBDA rc : rc.role = "row")
          ELSE IF child.role = "row" THEN <<child>> ELSE <<>>)
         \o table_row_nodes(Tail(kids))

row_is_header(row) ==
    \E i \in 1..Len(children(row)) : children(row)[i].role \in {"columnheader", "rowheader"}

row_cells(row, depth) ==
    LET cs == SelectSeq(children(row), LAMBDA cell : cell.role \in CellRoles) IN
    [i \in 1..Len(cs) |-> get_node_text(cs[i], depth + 2)]

\* header_row: the index (from 0) of the first header row, if any
header_row_of(rowNodes) ==
    IF \E i \in 1..Len(rowNodes) : row_is_header(rowNodes[i])
    THEN Some((CHOOSE i \in 1..Len(rowNodes) :
                  row_is_header(rowNodes[i])
                  /\ \A j \in 1..(i - 1) : ~row_is_header(rowNodes[j])) - 1)
    ELSE None

RECURSIVE SeqMax(_)
SeqMax(ns) == IF ns = <<>> THEN 0 ELSE Max(Head(ns), SeqMax(Tail(ns)))

\* col_widths: at least 3, and the longest cell of the column
col_widths_of(rows, num_cols) ==
    [col \in 1..num_cols |->
        Max(3, SeqMax([r \in 1..Len(rows) |->
                          IF col <= Len(rows[r]) THEN Len(rows[r][col]) ELSE 0]))]

RECURSIVE join_cells(_, _, _)
\* " cell |" for each column from col on; a missing cell is padded with spaces
join_cells(row, widths, col) ==
    IF col > Len(widths) THEN <<>>
    ELSE <<SP>> \o pad_to(IF col <= Len(row) THEN row[col] ELSE <<>>, widths[col])
         \o <<SP, "|">> \o join_cells(row, widths, col + 1)

RECURSIVE join_separator(_, _)
join_separator(widths, col) ==
    IF col > Len(widths) THEN <<>>
    ELSE <<SP>> \o repeat(<<"-">>, widths[col]) \o <<SP, "|">>
         \o join_separator(widths, col + 1)

RECURSIVE table_lines(_, _, _, _)
table_lines(rows, widths, header_row, row_idx) ==
    IF row_idx >= Len(rows) THEN <<>>
    ELSE <<"|">> \o join_cells(rows[row_idx + 1], widths, 1) \o <<NL>>
         \o (IF Some(row_idx) = header_row \/ (header_row = None /\ row_idx = 0)
             THEN <<"|">> \o join_separator(widths, 1) \o <<NL>>
             ELSE <<>>)
         \o table_lines(rows, widths, header_row, row_idx + 1)

\* convert_table: the text it appends to the output, and whether a cell's text overflowed
convert_table(table_node, depth) ==
    LET rowNodes == table_row_nodes(children(table_node))
        got == [r \in 1..Len(rowNodes) |-> row_cells(rowNodes[r], depth)]
        rows == [r \in 1..Len(rowNodes) |->
                    [i \in 1..Len(got[r]) |-> unwrap_or(got[r][i].text, <<>>)]]
        num_cols == SeqMax([r \in 1..Len(rows) |-> Len(rows[r])])
        widths == col_widths_of(rows, num_cols)
    IN [text |-> IF rows = <<>> THEN <<>>
                 ELSE table_lines(rows, widths, header_row_of(rowNodes), 0),
        overflow |-> \E r \in 1..Len(got) : \E i \in 1..Len(got[r]) : got[r][i].overflow]

\* ---- convert_node
\* What one call does before it returns or makes its first nested call: the converter
\* it leaves, the nested calls it makes (in order), and whether it aborts the process.
Done(c) == [c |-> c, calls |-> <<>>, abort |-> "none"]
Calls(c, calls) == [c |-> c, calls |-> calls, abort |-> "none"]
Abort(c, why) == [c |-> c, calls |-> <<>>, abort |-> why]

\* convert_children: one convert_node call per resolvable child, in order
convert_children(node, depth) ==
    LET kids == children(node) IN
    [i \in 1..Len(kids) |-> [op |-> "convert_node", id |-> kids[i].node_id, depth |-> depth + 1]]

\* the rest of an arm, run when its convert_children has returned
After(what, node, depth) == <<[op |-> what, id |-> node.node_id, depth |-> depth]>>

\* `x as usize` of an i64 is x + 2^64 when x < 0, more than any allocation may hold
\* (isize::MAX bytes): "#".repeat(level) then panics with a capacity overflow.
repeat_overflows(level) == level < 0

\* convert_node, "link" arm
link_arm(c, node, depth) ==
    LET got == get_node_text(node, depth)
        text == unwrap_or(got.text, <<>>)
        url == unwrap_or(node.url, <<"#">>)
        position == Len(c.output)
        pushed == push_str(c, <<"[">> \o text \o <<"]", "(">> \o url \o <<")">>)
    IN IF got.overflow THEN Abort(c, "stack_overflow")
       ELSE IF text # <<>>
       THEN Done([pushed EXCEPT !.links =
                    Append(@, [text |-> text, url |-> url, position |-> position])])
       ELSE Done(c)

\* convert_node, "heading" arm
heading_arm(c, node, depth) ==
    LET spaced == ensure_block_spacing(c)
        level == Min(unwrap_or(node.level, 1), 6)
        got == get_node_text(node, depth)
    IN IF repeat_overflows(level) THEN Abort(spaced, "capacity_overflow")
       ELSE IF got.overflow THEN Abort(spaced, "stack_overflow")
       ELSE IF got.text # None
       THEN Done([push_str(spaced, repeat(<<"#">>, level) \o <<SP>> \o Unwrap(got.text)
                                   \o <<NL, NL>>)
                    EXCEPT !.last_was_block = TRUE])
       ELSE Done(spaced)

\* convert_node, "paragraph" arm
paragraph_arm(c, node, depth) ==
    LET kids == children(node)
        has_special_children ==
            \E i \in 1..Len(kids) :
                kids[i].role \in {"link", "strong", "emphasis", "code", "image"}
        got == get_node_text(node, depth)
    IN IF has_special_children
       THEN Calls(ensure_block_spacing(c),
                  convert_children(node, depth) \o After("after_paragraph", node, depth))
       ELSE IF got.overflow THEN Abort(c, "stack_overflow")
       ELSE IF got.text # None /\ ~is_blank(Unwrap(got.text))
       THEN Done([push_str(ensure_block_spacing(c), Unwrap(got.text) \o <<NL, NL>>)
                    EXCEPT !.last_was_block = TRUE])
       ELSE Done(c)

\* convert_node, "list" arm, up to convert_children
list_arm(c, node, depth) ==
    LET spaced == ensure_block_spacing(c) IN
    Calls([spaced EXCEPT !.list_depth = @ + 1, !.list_counters = Append(@, 0)],
          convert_children(node, depth) \o After("after_list", node, depth))

\* convert_node, "listitem" arm
listitem_arm(c, node, depth) ==
    LET indent == repeat(<<SP, SP>>, Max(c.list_depth - 1, 0))
        counters == IF c.list_counters = <<>> THEN <<>>
                    ELSE [c.list_counters EXCEPT ![Len(c.list_counters)] = @ + 1]
        is_ordered == "SetSize" \in DOMAIN node.properties
                      \/ "PosInSet" \in DOMAIN node.properties
        num == IF counters = <<>> THEN 1 ELSE counters[Len(counters)]
        marker == IF is_ordered THEN to_string(num) \o <<".", SP>> ELSE <<"-", SP>>
        marked == push_str([c EXCEPT !.list_counters = counters], indent \o marker)
        got == get_node_text(node, depth)
    IN IF got.overflow THEN Abort(marked, "stack_overflow")
       ELSE IF got.text # None
       THEN Done(push_str(marked, Unwrap(got.text) \o <<NL>>))
       ELSE Calls(marked, convert_children(node, depth) \o After("after_listitem", node, depth))

RECURSIVE quote_lines(_)
quote_lines(ls) ==
    IF ls = <<>> THEN <<>> ELSE <<">", SP>> \o Head(ls) \o <<NL>> \o quote_lines(Tail(ls))

\* convert_node, "blockquote" arm
blockquote_arm(c, node, depth) ==
    LET got == get_node_text(node, depth)
        text == unwrap_or(got.text, <<>>)
    IN IF got.overflow THEN Abort(c, "stack_overflow")
       ELSE Done([push_str(ensure_block_spacing(c), quote_lines(lines(text)) \o <<NL>>)
                    EXCEPT !.last_was_block = TRUE])

\* convert_node, "code" | "pre" arm
code_arm(c, node, depth) ==
    LET got == get_node_text(node, depth)
        text == unwrap_or(got.text, <<>>)
    IN IF got.overflow THEN Abort(c, "stack_overflow")
       ELSE IF c.in_code_block
       THEN Done(IF got.text # None THEN push_str(c, text) ELSE c)
       ELSE IF contains(text, <<NL>>)
       THEN Done([push_str(ensure_block_spacing(c),
                           <<BQ, BQ, BQ, NL>> \o text
                           \o (IF ~ends_with(text, <<NL>>) THEN <<NL>> ELSE <<>>)
                           \o <<BQ, BQ, BQ, NL, NL>>)
                    EXCEPT !.in_code_block = FALSE, !.last_was_block = TRUE])
       ELSE Done(push_str(c, <<BQ>> \o text \o <<BQ>>))

\* convert_node, "image" | "img" arm
image_arm(c, node) ==
    LET alt == unwrap_or(node.name, <<"i", "m", "a", "g", "e">>)
        src == unwrap_or(node.url, <<>>)
    IN IF src # <<>>
       THEN Done(push_str(c, <<"!", "[">> \o alt \o <<"]", "(">> \o src \o <<")">>))
       ELSE Done(c)

\* convert_node, "table" arm
table_arm(c, node, depth) ==
    LET table == convert_table(node, depth) IN
    IF table.overflow THEN Abort(c, "stack_overflow")
    ELSE Done([push_str(ensure_block_spacing(c), table.text \o <<NL>>)
                 EXCEPT !.last_was_block = TRUE])

\* convert_node, "strong" and "emphasis" arms: the mark, then the text or the children
inline_mark_arm(c, node, depth, mark, after) ==
    LET got == get_node_text(node, depth)
        opened == push_str(c, mark)
    IN IF got.overflow THEN Abort(opened, "stack_overflow")
       ELSE IF got.text # None
       THEN Done(push_str(opened, Unwrap(got.text) \o mark))
       ELSE Calls(opened, convert_children(node, depth) \o After(after, node, depth))

\* convert_node, form elements: "textbox" | "searchbox", "button", "checkbox"
form_arm(c, node) ==
    LET checked == "Checked" \in DOMAIN node.properties /\ node.properties["Checked"] = "true"
    IN CASE node.role \in {"textbox", "searchbox"} ->
              Done(push_str(c, <<"[", "I", "n", "p", "u", "t", ":", SP>>
                               \o unwrap_or(node.name, <<"i", "n", "p", "u", "t">>) \o <<"]">>))
         [] node.role = "button" ->
              Done(push_str(c, <<"[", "B", "u", "t", "t", "o", "n", ":", SP>>
                               \o unwrap_or(node.name, <<"b", "u", "t", "t", "o", "n">>)
                               \o <<"]">>))
         [] OTHER ->
              Done(push_str(c, (IF checked THEN <<"[", "x", "]">> ELSE <<"[", SP, "]">>)
                               \o <<SP>>
                               \o unwrap_or(node.name,
                                            <<"c", "h", "e", "c", "k", "b", "o", "x">>)))

\* convert_node, default arm: the collected text, else the children
default_arm(c, node, depth) ==
    LET got == get_node_text(node, depth) IN
    IF got.overflow THEN Abort(c, "stack_overflow")
    ELSE IF got.text # None
    THEN Done(IF ~is_blank(Unwrap(got.text)) THEN push_str(c, Unwrap(got.text)) ELSE c)
    ELSE Calls(c, convert_children(node, depth))

SkippedRoles ==
    {"navigation", "banner", "contentinfo", "complementary", "search",
     "form", "toolbar", "menubar", "menu", "menuitem"}

\* convert_node: the dispatch on the node's role
convert_node(c, node, depth) ==
    IF should_skip_but_recurse(node) THEN Calls(c, convert_children(node, depth))
    ELSE IF should_skip_node(node) THEN Done(c)
    ELSE CASE node.role \in {"RootWebArea", "WebArea", "document"} ->
                Calls(c, convert_children(node, depth))
           [] node.role = "heading" -> heading_arm(c, node, depth)
           [] node.role = "paragraph" -> paragraph_arm(c, node, depth)
           [] node.role = "link" -> link_arm(c, node, depth)
           [] node.role = "list" -> list_arm(c, node, depth)
           [] node.role = "listitem" -> listitem_arm(c, node, depth)
           [] node.role = "blockquote" -> blockquote_arm(c, node, depth)
           [] node.role \in {"code", "pre"} -> code_arm(c, node, depth)
           [] node.role \in {"image", "img"} -> image_arm(c, node)
           [] node.role = "table" -> table_arm(c, node, depth)
           [] node.role = "separator" ->
                Done([push_str(ensure_block_spacing(c), <<"-", "-", "-", NL, NL>>)
                        EXCEPT !.last_was_block = TRUE])
           [] node.role = "strong" -> inline_mark_arm(c, node, depth, <<"*", "*">>, "after_strong")
           [] node.role = "emphasis" -> inline_mark_arm(c, node, depth, <<"*">>, "after_emphasis")
           [] node.role = "StaticText" ->
                Done(IF node.name # None THEN push_str(c, Unwrap(node.name)) ELSE c)
           [] node.role \in {"group", "section", "article", "main", "region"} ->
                Calls(c, convert_children(node, depth))
           [] node.role \in {"textbox", "searchbox", "button", "checkbox"} -> form_arm(c, node)
           [] node.role \in SkippedRoles -> Done(c)
           [] OTHER -> default_arm(c, node, depth)

\* the rest of an arm after its convert_children returned
after_children(c, what) ==
    CASE what = "after_paragraph" ->
           [push_str(c, <<NL, NL>>) EXCEPT !.last_was_block = TRUE]
      [] what = "after_list" ->
           LET popped == [c EXCEPT !.list_counters = SubSeq(@, 1, Len(@) - 1),
                                   !.list_depth = @ - 1]
           IN IF popped.list_depth = 0
              THEN [push_str(popped, <<NL>>) EXCEPT !.last_was_block = TRUE]
              ELSE popped
      [] what = "after_listitem" -> push_str(c, <<NL>>)
      [] what = "after_strong" -> push_str(c, <<"*", "*">>)
      [] what = "after_emphasis" -> push_str(c, <<"*">>)

\* ---- the converter's steps
AxIdle ==
    /\ converter = NewConverter
    /\ ax_stack = <<>>
    /\ ax_pc = "idle"

AxInit ==
    /\ converter = NewConverter
    /\ ax_stack = <<>>
    /\ ax_pc = "start"

\* convert: if let Some(root) = self.tree.root() { self.convert_node(root) }
Convert ==
    /\ ax_pc = "start"
    /\ ax_stack' = IF root = None THEN <<>>
                   ELSE <<[op |-> "convert_node", id |-> Unwrap(root).node_id, depth |-> 1]>>
    /\ ax_pc' = "converting"
    /\ UNCHANGED <<converter, axtree, outer_vars, walk_vars, iter_vars, cl_vars, md_vars>>

\* one call of convert_node, up to its return or its nested calls
ConvertNode ==
    /\ ax_pc = "converting"
    /\ ax_stack # <<>>
    /\ Head(ax_stack).op = "convert_node"
    /\ LET call == Head(ax_stack) IN
       IF call.depth > MaxStackDepth
       THEN /\ ax_pc' = "stack_overflow"
            /\ UNCHANGED <<converter, ax_stack>>
       ELSE LET did == convert_node(converter, axtree.nodes[call.id], call.depth) IN
            /\ converter' = did.c
            /\ IF did.abort # "none"
               THEN /\ ax_pc' = did.abort
                    /\ UNCHANGED ax_stack
               ELSE /\ ax_stack' = did.calls \o Tail(ax_stack)
                    /\ UNCHANGED ax_pc
    /\ UNCHANGED <<axtree, outer_vars, walk_vars, iter_vars, cl_vars, md_vars>>

\* convert_children returned: the arm's remaining statements
AfterChildren ==
    /\ ax_pc = "converting"
    /\ ax_stack # <<>>
    /\ Head(ax_stack).op # "convert_node"
    /\ converter' = after_children(converter, Head(ax_stack).op)
    /\ ax_stack' = Tail(ax_stack)
    /\ UNCHANGED <<ax_pc, axtree, outer_vars, walk_vars, iter_vars, cl_vars, md_vars>>

\* convert: self.cleanup_output(), then (converter.output, converter.links) is returned
CleanupOutput ==
    /\ ax_pc = "converting"
    /\ ax_stack = <<>>
    /\ converter' = [converter EXCEPT !.output = cleanup_output(@)]
    /\ ax_pc' = "done"
    /\ UNCHANGED <<ax_stack, axtree, outer_vars, walk_vars, iter_vars, cl_vars, md_vars>>

\* ====================================================== markdown.rs: the DOM
\* The scraper tree html_to_markdown_with_base walks, as Html::parse_fragment built it.
\* A node is a text node, an element (tag, attributes, children) or something else
\* (a comment), which convert_element passes over.
NoAttrs == <<>>
Text(str) == [kind |-> "text", tag |-> "", attrs |-> NoAttrs, text |-> str, children |-> <<>>]
Element(tag, attrs, kids) ==
    [kind |-> "element", tag |-> tag, attrs |-> attrs, text |-> <<>>, children |-> kids]
Comment == [kind |-> "comment", tag |-> "", attrs |-> NoAttrs, text |-> <<>>, children |-> <<>>]

\* element.value().attr(name)
attr(element, name) ==
    IF name \in DOMAIN element.attrs THEN Some(element.attrs[name]) ELSE None

RECURSIVE Concat(_)
Concat(strs) == IF strs = <<>> THEN <<>> ELSE Head(strs) \o Concat(Tail(strs))

RECURSIVE text_of(_)
\* element.text().collect::<String>(): the descendant text nodes, in document order
text_of(node) ==
    IF node.kind = "text" THEN node.text
    ELSE Concat([i \in 1..Len(node.children) |-> text_of(node.children[i])])

RECURSIVE select(_, _)
\* element.select(&Selector::parse(tag)): the descendant elements of that tag, in
\* document order; the element itself is not among them
select(element, tag) ==
    Concat([i \in 1..Len(element.children) |->
              LET kid == element.children[i] IN
              (IF kid.kind = "element" /\ kid.tag = tag THEN <<kid>> ELSE <<>>)
              \o select(kid, tag)])

RECURSIVE normalize_whitespace(_)
\* Regex \s+ replaced by " ": every run of whitespace becomes one space
normalize_whitespace(text) ==
    IF \A i \in 1..Len(text) : ~is_whitespace(text[i]) THEN text
    ELSE LET i == CHOOSE j \in 1..Len(text) :
                     is_whitespace(text[j]) /\ \A k \in 1..(j - 1) : ~is_whitespace(text[k])
         IN SubSeq(text, 1, i - 1) \o <<SP>>
            \o normalize_whitespace(trim_start(SubSeq(text, i, Len(text))))

\* ensure_newlines: push "\n" until the output ends with `count` of them
ensure_newlines(output, count) ==
    LET trailing_newlines == LeadingNewlines(Reverse(output))
    IN output \o repeat(<<NL>>, count - trailing_newlines)

\* A base Url: its scheme, and what join() resolves a relative reference against
\* (None for a cannot-be-a-base url such as about:blank, where join() is an Err).
AboutBlank == [scheme |-> <<"a", "b", "o", "u", "t">>, dir |-> None]
HttpBase == [scheme |-> <<"h", "t", "t", "p">>, dir |-> Some(<<"h", "t", "t", "p", ":", "/", "/", "b", "/">>)]

\* resolve_url; base_url.join(href) of a one-segment relative path replaces the last
\* segment of the base's path
resolve_url(href, base) ==
    IF starts_with(href, <<"h", "t", "t", "p", ":", "/", "/">>) \/ starts_with(href, <<"h", "t", "t", "p", "s", ":", "/", "/">>)
    THEN href
    ELSE IF starts_with(href, <<"/", "/">>)
    THEN base.scheme \o <<":">> \o href
    ELSE IF base.dir = None THEN href ELSE Unwrap(base.dir) \o href

\* ---- markdown.rs: the renderer's state
\* md_state.outputs: the `output` arguments of the calls in progress: the String of
\*   html_to_markdown_with_base first, then the cell_output of each data cell being
\*   rendered; the last one is the `output` the innermost call appends to
\* md_state.links: the `links` argument; md_state.ctx: the Context
\* md_state.tables: the locals (rows, has_header, cells) of each convert_table in progress
DefaultContext ==
    [in_pre |-> FALSE, in_code |-> FALSE, in_list |-> FALSE, list_depth |-> 0,
     list_counters |-> <<>>, current_position |-> 0]

NewRender == [outputs |-> <<<<>>>>, links |-> <<>>, ctx |-> DefaultContext, tables |-> <<>>]

output_of(s) == s.outputs[Len(s.outputs)]
md_push_str(s, str) == [s EXCEPT !.outputs[Len(s.outputs)] = @ \o str]
md_ensure_newlines(s, count) ==
    [s EXCEPT !.outputs[Len(s.outputs)] = ensure_newlines(@, count)]

\* The frames of the calls convert_element makes for the children of `element`
md_convert_element(element) ==
    LET kids == SelectSeq(element.children, LAMBDA k : k.kind \in {"text", "element"})
    IN [i \in 1..Len(kids) |->
          [op |-> IF kids[i].kind = "text" THEN "text" ELSE "convert_tag", node |-> kids[i]]]

Frame(op, node) == <<[op |-> op, node |-> node]>>

\* convert_element, Node::Text arm
convert_text(s, node) ==
    LET content == node.text
        normalized == normalize_whitespace(content)
        pushed == IF s.ctx.in_pre \/ s.ctx.in_code THEN md_push_str(s, content)
                  ELSE IF normalized # <<>> THEN md_push_str(s, normalized)
                  ELSE s
    IN [pushed EXCEPT !.ctx.current_position = Len(output_of(pushed))]

\* ---- convert_tag
\* What one call does before it returns or makes its first nested call: the state it
\* leaves and the nested calls and continuations it makes, in order.
MdDone(s) == [s |-> s, calls |-> <<>>]
MdCalls(s, calls) == [s |-> s, calls |-> calls]

HeadingLevel(tag) ==
    CASE tag = "h1" -> 1 [] tag = "h2" -> 2 [] tag = "h3" -> 3
      [] tag = "h4" -> 4 [] tag = "h5" -> 5 [] tag = "h6" -> 6

InlineMark(tag) ==
    CASE tag \in {"strong", "b"} -> <<"*", "*">>
      [] tag \in {"em", "i"} -> <<"*">>
      [] tag = "u" -> <<"_">>
      [] tag \in {"s", "strike", "del"} -> <<"~", "~">>

\* the "a" arm with the trimmed text pushed for an anchor without href
a_arm_text_only(s, element, base) ==
    LET text == trim(text_of(element))
        href == attr(element, "href")
        resolved == resolve_url(Unwrap(href), base)
        position == Len(output_of(s))
        span == <<"[">> \o (IF text = <<>> THEN resolved ELSE text) \o <<"]", "(">>
                  \o resolved \o <<")">>
    IN IF href # None
       THEN MdDone([md_push_str(s, span) EXCEPT
                      !.links = @ \o <<[text |-> text, url |-> resolved,
                                        position |-> position]>>])
       ELSE MdDone(md_push_str(s, text))

\* convert_tag, "a" arm
a_arm(s, element, base) ==
    LET text == trim(text_of(element))
        href == attr(element, "href")
        resolved == resolve_url(Unwrap(href), base)
        position == Len(output_of(s))
        span == <<"[">> \o (IF text = <<>> THEN resolved ELSE text) \o <<"]", "(">>
                  \o resolved \o <<")">>
    IN IF href # None
       THEN MdDone([md_push_str(s, span) EXCEPT
                      !.links = @ \o <<[text |-> text, url |-> resolved,
                                        position |-> position]>>])
       ELSE MdCalls(s, md_convert_element(element))

\* convert_tag, "img" arm
img_arm(s, element, base) ==
    LET alt == unwrap_or(attr(element, "alt"), <<"i", "m", "a", "g", "e">>)
        src == attr(element, "src")
    IN IF src # None
       THEN MdDone(md_push_str(s, <<"!", "[">> \o alt \o <<"]", "(">>
                                    \o resolve_url(Unwrap(src), base) \o <<")">>))
       ELSE MdDone(md_push_str(s, <<"[", "I", "M", "G", ":", " ">> \o alt \o <<"]">>))

\* convert_tag, "ul" and "ol" arms: first is the counter pushed, 0 or 1
list_tag_arm(s, element, first) ==
    LET spaced == md_ensure_newlines(s, 2)
    IN MdCalls([spaced EXCEPT !.ctx.list_depth = @ + 1,
                              !.ctx.in_list = TRUE,
                              !.ctx.list_counters = Append(@, first)],
               md_convert_element(element) \o Frame("after", element))

\* convert_tag, "li" arm
li_arm(s, element) ==
    LET spaced == md_ensure_newlines(s, 1)
        indent == repeat(<<SP, SP>>, Max(spaced.ctx.list_depth - 1, 0))
        counters == spaced.ctx.list_counters
        n == Len(counters)
        marked ==
            IF n > 0 /\ counters[n] > 0
            THEN [md_push_str(spaced, indent \o to_string(counters[n]) \o <<".", SP>>)
                    EXCEPT !.ctx.list_counters[n] = @ + 1]
            ELSE md_push_str(spaced, indent \o <<"-", SP>>)
    IN MdCalls(marked, md_convert_element(element))

RECURSIVE quoted(_)
\* "> " + line.trim() + "\n" for each line
quoted(ls) ==
    IF ls = <<>> THEN <<>>
    ELSE <<">", SP>> \o trim(Head(ls)) \o <<NL>> \o quoted(Tail(ls))

\* convert_tag, "blockquote" arm
blockquote_tag_arm(s, element) ==
    LET inner == text_of(element)
    IN MdDone(md_ensure_newlines(md_push_str(md_ensure_newlines(s, 2),
                                             quoted(lines(inner))), 1))

\* convert_tag, "video" and "audio" arms
media_arm(s, element, base) ==
    LET media_type == IF element.tag = "video" THEN <<"V", "I", "D", "E", "O">> ELSE <<"A", "U", "D", "I", "O">>
        src == attr(element, "src")
    IN IF src # None
       THEN MdDone(md_push_str(s, <<"[">> \o media_type \o <<":", SP>>
                                    \o resolve_url(Unwrap(src), base) \o <<"]">>))
       ELSE MdDone(md_push_str(s, <<"[">> \o media_type \o <<"]">>))

\* convert_tag, "iframe" arm
iframe_arm(s, element, base) ==
    LET src == attr(element, "src")
        title == unwrap_or(attr(element, "title"), <<"e", "m", "b", "e", "d", "d", "e", "d", " ", "c", "o", "n", "t", "e", "n", "t">>)
    IN IF src # None
       THEN MdDone(md_push_str(s, <<"[", "I", "F", "R", "A", "M", "E", ":", " ">> \o title \o <<SP, "(">>
                                    \o resolve_url(Unwrap(src), base) \o <<")", "]">>))
       ELSE MdDone(s)

\* convert_tag, "input" arm
input_arm(s, element) ==
    LET input_type == unwrap_or(attr(element, "type"), <<"t", "e", "x", "t">>)
        name == unwrap_or(attr(element, "name"), <<>>)
        placeholder == unwrap_or(attr(element, "placeholder"), <<>>)
        label == IF placeholder # <<>> THEN placeholder
                 ELSE IF name # <<>> THEN name ELSE <<"i", "n", "p", "u", "t">>
    IN CASE input_type = <<"h", "i", "d", "d", "e", "n">> -> MdDone(s)
         [] input_type \in {<<"s", "u", "b", "m", "i", "t">>, <<"b", "u", "t", "t", "o", "n">>} ->
              MdDone(md_push_str(s, <<"[">> \o unwrap_or(attr(element, "value"), <<"S", "u", "b", "m", "i", "t">>)
                                      \o <<"]">>))
         [] input_type \in {<<"c", "h", "e", "c", "k", "b", "o", "x">>, <<"r", "a", "d", "i", "o">>} ->
              MdDone(md_push_str(s, IF attr(element, "checked") # None
                                    THEN <<"[", "x", "]">> ELSE <<"[", SP, "]">>))
         [] OTHER -> MdDone(md_push_str(s, <<"[", "I", "N", "P", "U", "T", ":", " ">> \o label \o <<"]">>))

\* convert_tag
convert_tag(s, element, base) ==
    LET tag == element.tag
        kids == md_convert_element(element)
        after == Frame("after", element)
    IN CASE tag \in {"script", "style", "noscript", "nav", "footer", "header"} -> MdDone(s)
         [] tag \in {"h1", "h2", "h3", "h4", "h5", "h6"} ->
              MdCalls(md_push_str(md_ensure_newlines(s, 2),
                                  repeat(<<"#">>, HeadingLevel(tag)) \o <<SP>>),
                      kids \o after)
         [] tag = "p" -> MdCalls(md_ensure_newlines(s, 2), kids \o after)
         [] tag \in {"div", "section", "article", "main"} ->
              MdCalls(md_ensure_newlines(s, 1), kids \o after)
         [] tag = "br" -> MdDone(md_push_str(s, <<SP, SP, NL>>))
         [] tag = "hr" ->
              MdDone(md_ensure_newlines(md_push_str(md_ensure_newlines(s, 2),
                                                    <<"-", "-", "-">>), 2))
         [] tag \in {"strong", "b", "em", "i", "u", "s", "strike", "del"} ->
              MdCalls(md_push_str(s, InlineMark(tag)), kids \o after)
         [] tag = "code" ->
              IF s.ctx.in_pre THEN MdCalls(s, kids)
              ELSE MdCalls([md_push_str(s, <<BQ>>) EXCEPT !.ctx.in_code = TRUE], kids \o after)
         [] tag = "pre" ->
              MdCalls([md_push_str(md_ensure_newlines(s, 2), <<BQ, BQ, BQ, NL>>)
                         EXCEPT !.ctx.in_pre = TRUE],
                      kids \o after)
         [] tag = "a" -> a_arm(s, element, base)
         [] tag = "img" -> img_arm(s, element, base)
         [] tag = "ul" -> list_tag_arm(s, element, 0)
         [] tag = "ol" -> list_tag_arm(s, element, 1)
         [] tag = "li" -> li_arm(s, element)
         [] tag = "blockquote" -> blockquote_tag_arm(s, element)
         [] tag = "table" ->
              \* convert_table: its locals, then one step per row, then the rendering
              LET trs == select(element, "tr") IN
              MdCalls([md_ensure_newlines(s, 2) EXCEPT
                         !.tables = Append(@, [rows |-> <<>>, has_header |-> FALSE,
                                               cells |-> <<>>])],
                      [i \in 1..Len(trs) |-> [op |-> "row", node |-> trs[i]]]
                      \o Frame("render", element))
         [] tag \in {"video", "audio"} -> media_arm(s, element, base)
         [] tag = "iframe" -> iframe_arm(s, element, base)
         [] tag = "form" ->
              MdCalls(md_ensure_newlines(md_push_str(md_ensure_newlines(s, 2), <<"[", "F", "O", "R", "M", "]">>), 1),
                      kids \o after)
         [] tag = "input" -> input_arm(s, element)
         [] tag = "textarea" ->
              MdDone(md_push_str(s, <<"[", "T", "E", "X", "T", "A", "R", "E", "A", ":", " ">>
                                      \o unwrap_or(attr(element, "name"), <<"t", "e", "x", "t">>)
                                      \o <<"]">>))
         [] tag = "select" ->
              MdDone(md_push_str(s, <<"[", "S", "E", "L", "E", "C", "T", ":", " ">>
                                      \o unwrap_or(attr(element, "name"), <<"s", "e", "l", "e", "c", "t">>)
                                      \o <<"]">>))
         [] tag = "button" ->
              MdDone(md_push_str(s, <<"[">> \o trim(text_of(element)) \o <<"]">>))
         [] OTHER -> MdCalls(s, kids)

\* the rest of a convert_tag arm after its convert_element returned
after_tag(s, element) ==
    LET tag == element.tag IN
    CASE tag \in {"h1", "h2", "h3", "h4", "h5", "h6", "p"} -> md_ensure_newlines(s, 2)
      [] tag \in {"div", "section", "article", "main"} -> md_ensure_newlines(s, 1)
      [] tag \in {"strong", "b", "em", "i", "u", "s", "strike", "del"} ->
           md_push_str(s, InlineMark(tag))
      [] tag = "code" -> md_push_str([s EXCEPT !.ctx.in_code = FALSE], <<BQ>>)
      [] tag = "pre" ->
           LET left == [s EXCEPT !.ctx.in_pre = FALSE]
               ended == IF ends_with(output_of(left), <<NL>>) THEN left
                        ELSE md_push_str(left, <<NL>>)
           IN md_ensure_newlines(md_push_str(ended, <<BQ, BQ, BQ>>), 2)
      [] tag \in {"ul", "ol"} ->
           LET depth == s.ctx.list_depth - 1 IN
           md_ensure_newlines(
               [s EXCEPT !.ctx.list_counters = SubSeq(@, 1, Len(@) - 1),
                         !.ctx.list_depth = depth,
                         !.ctx.in_list = depth > 0], 2)
      [] tag = "form" ->
           md_ensure_newlines(md_push_str(md_ensure_newlines(s, 1), <<"[", "/", "F", "O", "R", "M", "]">>), 2)

\* ---- convert_table
top_table(s) == s.tables[Len(s.tables)]

\* for row in table.select("tr"): the header cells if the row has any, else one call
\* per data cell
table_row(s, row) ==
    LET headers == select(row, "th")
        tds == select(row, "td")
        t == Len(s.tables)
    IN IF headers # <<>>
       THEN MdCalls([s EXCEPT !.tables[t].has_header = TRUE,
                              !.tables[t].cells =
                                  [i \in 1..Len(headers) |-> trim(text_of(headers[i]))]],
                    Frame("row_end", row))
       ELSE MdCalls([s EXCEPT !.tables[t].cells = <<>>],
                    [i \in 1..Len(tds) |-> [op |-> "cell", node |-> tds[i]]]
                    \o Frame("row_end", row))

\* let mut cell_output = String::new(); convert_element(td, .., &mut cell_output, ..)
table_cell(s, td) ==
    MdCalls([s EXCEPT !.outputs = Append(@, <<>>)],
            md_convert_element(td) \o Frame("cell_end", td))

\* cells.push(cell_output.trim().replace('\n', " "))
table_cell_end(s) ==
    LET cell_output == output_of(s)
        t == Len(s.tables)
    IN [s EXCEPT !.outputs = SubSeq(@, 1, Len(@) - 1),
                 !.tables[t].cells = Append(@, replace(trim(cell_output), <<NL>>, <<SP>>))]

\* if !cells.is_empty() { rows.push(cells) }
table_row_end(s) ==
    LET t == Len(s.tables) IN
    IF top_table(s).cells # <<>>
    THEN [s EXCEPT !.tables[t].rows = Append(@, top_table(s).cells)]
    ELSE s

RECURSIVE md_table_lines(_, _, _, _)
md_table_lines(rows, col_widths, has_header, row_idx) ==
    IF row_idx >= Len(rows) THEN <<>>
    ELSE <<"|">> \o join_cells(rows[row_idx + 1], col_widths, 1) \o <<NL>>
         \o (IF row_idx = 0 /\ has_header
             THEN <<"|">> \o join_separator(col_widths, 1) \o <<NL>>
             ELSE <<>>)
         \o md_table_lines(rows, col_widths, has_header, row_idx + 1)

\* convert_table from "if rows.is_empty()" on, and the "table" arm's last ensure_newlines
table_render(s) ==
    LET rows == top_table(s).rows
        col_count == SeqMax([r \in 1..Len(rows) |-> Len(rows[r])])
        col_widths == col_widths_of(rows, col_count)
        popped == [s EXCEPT !.tables = SubSeq(@, 1, Len(@) - 1)]
    IN md_ensure_newlines(
           IF rows = <<>> THEN popped
           ELSE md_push_str(popped, md_table_lines(rows, col_widths, top_table(s).has_header, 0)),
           2)

\* ---- the renderer's steps
MdIdle ==
    /\ document = Element("html", NoAttrs, <<>>)
    /\ base_url = AboutBlank
    /\ md_state = NewRender
    /\ md_stack = <<>>
    /\ md_pc = "idle"

MdInit ==
    /\ md_state = NewRender
    /\ md_stack = <<>>
    /\ md_pc = "start"

\* html_to_markdown_with_base: convert_element(root, base_url, &mut output, links, ..)
HtmlToMarkdownWithBase ==
    /\ md_pc = "start"
    /\ md_stack' = md_convert_element(document)
    /\ md_pc' = "converting"
    /\ UNCHANGED <<md_state, document, base_url, axtree, outer_vars, walk_vars, iter_vars, ax_vars, cl_vars>>

MdStep(op) ==
    /\ md_pc = "converting"
    /\ md_stack # <<>>
    /\ Head(md_stack).op = op

MdReturn(did) ==
    /\ md_state' = did.s
    /\ md_stack' = did.calls \o Tail(md_stack)
    /\ UNCHANGED <<md_pc, document, base_url, axtree, outer_vars, walk_vars, iter_vars, ax_vars, cl_vars>>

\* convert_element: a text child
ConvertText ==
    /\ MdStep("text")
    /\ MdReturn(MdDone(convert_text(md_state, Head(md_stack).node)))

\* convert_element: an element child, up to convert_tag's return or its nested calls
ConvertTag ==
    /\ MdStep("convert_tag")
    /\ MdReturn(convert_tag(md_state, Head(md_stack).node, base_url))

\* convert_element returned to convert_tag: the arm's remaining statements
AfterTag ==
    /\ MdStep("after")
    /\ MdReturn(MdDone(after_tag(md_state, Head(md_stack).node)))

\* convert_table: the next row
TableRow ==
    /\ MdStep("row")
    /\ MdReturn(table_row(md_state, Head(md_stack).node))

\* convert_table: the next data cell of the row
TableCell ==
    /\ MdStep("cell")
    /\ MdReturn(table_cell(md_state, Head(md_stack).node))

\* convert_table: the cell is rendered
TableCellEnd ==
    /\ MdStep("cell_end")
    /\ MdReturn(MdDone(table_cell_end(md_state)))

\* convert_table: the row's cells are collected
TableRowEnd ==
    /\ MdStep("row_end")
    /\ MdReturn(MdDone(table_row_end(md_state)))

\* convert_table: every row is collected
TableRender ==
    /\ MdStep("render")
    /\ MdReturn(MdDone(table_render(md_state)))

\* html_to_markdown_with_base: clean_markdown(&output) is returned
CleanMarkdown ==
    /\ md_pc = "converting"
    /\ md_stack = <<>>
    /\ md_state' = [md_state EXCEPT !.outputs = <<clean_markdown(output_of(md_state))>>]
    /\ md_pc' = "done"
    /\ UNCHANGED <<md_stack, document, base_url, axtree, outer_vars, walk_vars, iter_vars, ax_vars, cl_vars>>

MdNext ==
    \/ HtmlToMarkdownWithBase \/ ConvertText \/ ConvertTag \/ AfterTag
    \/ TableRow \/ TableCell \/ TableCellEnd \/ TableRowEnd \/ TableRender
    \/ CleanMarkdown

\* ============================================================== extract.rs
\* An HTML string is modelled by the element it serialises: element.html() followed by
\* Html::parse_fragment keeps the element's subtree, except where the fragment parser
\* ignores the element's own tags.

Ok(x) == [ok |-> TRUE, value |-> x]
Err(e) == [ok |-> FALSE, value |-> e]

\* a character of two UTF-8 bytes
EACUTE == "e-acute"

\* str::len: the length in bytes
len(str) == Len(str) + Cardinality({i \in 1..Len(str) : str[i] = EACUTE})

UpperCase == <<"A", "B", "C", "D", "E", "F", "G", "H", "I", "J", "K", "L", "M",
               "N", "O", "P", "Q", "R", "S", "T", "U", "V", "W", "X", "Y", "Z">>
LowerCase == <<"a", "b", "c", "d", "e", "f", "g", "h", "i", "j", "k", "l", "m",
               "n", "o", "p", "q", "r", "s", "t", "u", "v", "w", "x", "y", "z">>

\* str::to_lowercase
to_lowercase(str) ==
    [i \in 1..Len(str) |->
        IF \E k \in 1..Len(UpperCase) : UpperCase[k] = str[i]
        THEN LowerCase[CHOOSE k \in 1..Len(UpperCase) : UpperCase[k] = str[i]]
        ELSE str[i]]

RECURSIVE split_whitespace(_)
\* the whitespace-separated tokens of an attribute value
split_whitespace(str) ==
    LET t == trim_start(str) IN
    IF t = <<>> THEN <<>>
    ELSE LET n == IF \E i \in 1..Len(t) : is_whitespace(t[i])
                  THEN CHOOSE i \in 1..Len(t) :
                          is_whitespace(t[i]) /\ \A k \in 1..(i - 1) : ~is_whitespace(t[k])
                  ELSE Len(t) + 1
         IN <<SubSeq(t, 1, n - 1)>> \o split_whitespace(SubSeq(t, n, Len(t)))

TagSelector(tag) == [kind |-> "tag", name |-> tag, value |-> <<>>]
AttrSelector(name, value) == [kind |-> "attr", name |-> name, value |-> value]
ClassSelector(value) == [kind |-> "class", name |-> "class", value |-> value]
IdSelector(value) == [kind |-> "id", name |-> "id", value |-> value]

\* find_main_content: selectors_priority
selectors_priority ==
    <<TagSelector("article"),
      TagSelector("main"),
      AttrSelector("role", <<"m", "a", "i", "n">>),
      ClassSelector(<<"p", "o", "s", "t", "-", "c", "o", "n", "t", "e", "n", "t">>),
      ClassSelector(<<"a", "r", "t", "i", "c", "l", "e", "-", "c", "o", "n", "t", "e", "n", "t">>),
      ClassSelector(<<"e", "n", "t", "r", "y", "-", "c", "o", "n", "t", "e", "n", "t">>),
      ClassSelector(<<"c", "o", "n", "t", "e", "n", "t">>),
      IdSelector(<<"c", "o", "n", "t", "e", "n", "t">>),
      ClassSelector(<<"p", "o", "s", "t">>),
      ClassSelector(<<"a", "r", "t", "i", "c", "l", "e">>)>>

\* Selector::matches
matches(element, selector) ==
    CASE selector.kind = "tag" -> element.tag = selector.name
      [] selector.kind = "class" ->
            /\ attr(element, "class") # None
            /\ \E i \in 1..Len(split_whitespace(Unwrap(attr(element, "class")))) :
                  split_whitespace(Unwrap(attr(element, "class")))[i] = selector.value
      [] OTHER -> attr(element, selector.name) = Some(selector.value)

RECURSIVE select_descendants(_, _)
select_descendants(element, selector) ==
    Concat([i \in 1..Len(element.children) |->
              LET kid == element.children[i] IN
              IF kid.kind # "element" THEN <<>>
              ELSE (IF matches(kid, selector) THEN <<kid>> ELSE <<>>)
                   \o select_descendants(kid, selector)])

\* document.select(&selector): the matching elements of the document, in document
\* order, the root element among them
document_select(document_, selector) ==
    (IF matches(document_, selector) THEN <<document_>> ELSE <<>>)
    \o select_descendants(document_, selector)

\* the start tags the fragment parser ignores in its body context
FragmentIgnored == {"html", "head", "body", "frameset", "frame"}

\* Html::parse_fragment(html) of an element's serialisation: a root whose children are
\* the element, or the element's children where the parser ignores the element's tags
parse_fragment(element) ==
    Element("html", NoAttrs,
            IF element.tag \in FragmentIgnored
            THEN SelectSeq(element.children,
                           LAMBDA k : ~(k.kind = "element" /\ k.tag \in FragmentIgnored))
            ELSE <<element>>)

\* has_meaningful_content
has_meaningful_content(html_str) == len(trim(text_of(parse_fragment(html_str)))) > 100

SkippedTags == {"script", "style", "nav", "header", "footer", "aside", "noscript", "iframe"}

NegativePatterns ==
    {<<"n", "a", "v">>, <<"m", "e", "n", "u">>, <<"s", "i", "d", "e", "b", "a", "r">>, <<"f", "o", "o", "t", "e", "r">>, <<"h", "e", "a", "d", "e", "r">>, <<"a", "d">>, <<"c", "o", "m", "m", "e", "n", "t">>}

\* score_element: the class attribute holds a negative pattern
has_negative_class(element) ==
    /\ attr(element, "class") # None
    /\ \E p \in NegativePatterns : contains(to_lowercase(Unwrap(attr(element, "class"))), p)

\* score_element: the score of an element that is not skipped
score_of(element, depth) ==
    (IF element.tag \in {"article", "main", "section"} THEN 50 ELSE 0)
    + (IF element.tag \in {"div", "td"} THEN 5 ELSE 0)
    + (IF element.tag = "p" THEN 10 ELSE 0)
    + Len(select(element, "p")) * 5
    + (len(trim(text_of(element))) \div 100)
    - depth * 2

RECURSIVE score_element(_, _)
\* score_element: the entries it inserts into `scores`, in the order of the inserts
score_element(element, depth) ==
    IF element.tag \in SkippedTags THEN <<>>
    ELSE IF has_negative_class(element) THEN <<>>
    ELSE (IF len(trim(text_of(element))) > 50
          THEN <<[key |-> <<element.tag, depth>>, score |-> score_of(element, depth),
                  html |-> element]>>
          ELSE <<>>)
         \o Concat([i \in 1..Len(element.children) |->
                      IF element.children[i].kind = "element"
                      THEN score_element(element.children[i], depth + 1)
                      ELSE <<>>])

\* HashMap::insert: of the entries of one key the last one stays
scores_after(inserts) ==
    {inserts[i] : i \in {i \in 1..Len(inserts) :
                            \A j \in (i + 1)..Len(inserts) : inserts[j].key # inserts[i].key}}

\* score_and_extract with the error in the place of the whole <body>
score_and_extract_or_error(document_) ==
    LET bodies == document_select(document_, TagSelector("body")) IN
    IF bodies = <<>> THEN {Err("ExtractionError")}
    ELSE LET body == bodies[1]
             scores == scores_after(score_element(body, 0))
         IN IF scores = {} THEN {Err("ExtractionError")}
            ELSE {Ok(e.html) : e \in {e \in scores : \A o \in scores : o.score <= e.score}}

\* score_and_extract: the results it can return; max_by_key over a HashMap returns one
\* of the entries of the highest score, whichever the map iterates last
score_and_extract(document_) ==
    LET bodies == document_select(document_, TagSelector("body")) IN
    IF bodies = <<>> THEN {Err("ExtractionError")}
    ELSE LET body == bodies[1]
             scores == scores_after(score_element(body, 0))
         IN IF scores = {} THEN {Ok(body)}
            ELSE {Ok(e.html) : e \in {e \in scores : \A o \in scores : o.score <= e.score}}

\* find_main_content: the selectors whose first match has meaningful content
priority_hits(document_) ==
    {i \in 1..Len(selectors_priority) :
        /\ document_select(document_, selectors_priority[i]) # <<>>
        /\ has_meaningful_content(document_select(document_, selectors_priority[i])[1])}

\* find_main_content: the results it can return
find_main_content(document_) ==
    IF priority_hits(document_) # {}
    THEN LET i == CHOOSE i \in priority_hits(document_) :
                     \A k \in priority_hits(document_) : i <= k
         IN {Ok(document_select(document_, selectors_priority[i])[1])}
    ELSE score_and_extract(document_)

\* extract_title
extract_title(document_) ==
    LET titles == document_select(document_, TagSelector("title")) IN
    IF titles = <<>> THEN None ELSE Some(trim(text_of(titles[1])))

\* extract_content_title
extract_content_title(document_) ==
    LET h1s == document_select(document_, TagSelector("h1")) IN
    IF h1s # <<>> /\ trim(text_of(h1s[1])) # <<>> THEN Some(trim(text_of(h1s[1])))
    ELSE extract_title(document_)

ExtractIdle ==
    /\ page = Element("html", NoAttrs, <<>>)
    /\ found = None
    /\ extracted = None
    /\ ex_pc = "idle"

ExtractInit ==
    /\ found = None
    /\ extracted = None
    /\ ex_pc = "start"

\* extract_content, up to the call of html_to_markdown_with_links or the return of
\* find_main_content's error
ExtractContent ==
    /\ ex_pc = "start"
    /\ \E content_html \in find_main_content(page) :
          /\ found' = Some(content_html)
          /\ IF content_html.ok
             THEN /\ document' = parse_fragment(content_html.value)
                  /\ md_pc' = "start"
                  /\ ex_pc' = "rendering"
                  /\ UNCHANGED extracted
             ELSE /\ extracted' = Some(content_html)
                  /\ ex_pc' = "done"
                  /\ UNCHANGED <<document, md_pc>>
    /\ UNCHANGED <<page, base_url, md_state, md_stack, axtree, walk_vars, iter_vars,
                   ax_vars, cl_vars, after_ex>>

\* extract_content, from the return of html_to_markdown_with_links
ExtractReturn ==
    /\ ex_pc = "rendering"
    /\ md_pc = "done"
    /\ extracted' = Some(Ok([text |-> output_of(md_state),
                             title |-> extract_content_title(page),
                             links |-> md_state.links]))
    /\ ex_pc' = "done"
    /\ UNCHANGED <<page, found, axtree, walk_vars, iter_vars, ax_vars, cl_vars, md_vars,
                   after_ex>>

\* ------------------------------------------------------- markdown_to_plain

\* how many of the first characters of s are ch
LeadingCount(s, ch) ==
    IF \A i \in 1..Len(s) : s[i] = ch THEN Len(s)
    ELSE (CHOOSE i \in 1..Len(s) : s[i] # ch /\ \A k \in 1..(i - 1) : s[k] = ch) - 1

LeadingWhitespace(s) == Len(s) - Len(trim_start(s))

\* the index of the first ch of s at or after `from`, 0 if there is none
NextIndex(s, from, ch) ==
    IF \E j \in from..Len(s) : s[j] = ch
    THEN CHOOSE j \in from..Len(s) : s[j] = ch /\ \A k \in from..(j - 1) : s[k] # ch
    ELSE 0

\* header_re, ^#{1,6}\s+ : the length of its match, 0 if there is none; without the
\* multi-line flag ^ matches at the start of the text only
header_match(text) ==
    LET hashes == LeadingCount(text, "#")
        spaces == LeadingWhitespace(SubSeq(text, hashes + 1, Len(text)))
    IN IF hashes \in 1..6 /\ spaces >= 1 THEN hashes + spaces ELSE 0

\* header_re.replace_all(&text, "")
remove_headers(text) == SubSeq(text, header_match(text) + 1, Len(text))

\* open, one or more characters other than stop, close: the index of the match's last
\* inner character if the pattern matches at i, 0 if it does not
pair_match(s, i, open, stop, close) ==
    LET j == NextIndex(s, i + Len(open), stop) IN
    IF /\ i + Len(open) - 1 <= Len(s)
       /\ SubSeq(s, i, i + Len(open) - 1) = open
       /\ j > i + Len(open)
       /\ j + Len(close) - 1 <= Len(s)
       /\ SubSeq(s, j, j + Len(close) - 1) = close
    THEN j - 1 ELSE 0

RECURSIVE strip_pairs(_, _, _, _)
\* Regex open([^stop]+)close replaced by "$1": every match, left to right
strip_pairs(s, open, stop, close) ==
    IF \A i \in 1..Len(s) : pair_match(s, i, open, stop, close) = 0 THEN s
    ELSE LET i == CHOOSE i \in 1..Len(s) :
                     /\ pair_match(s, i, open, stop, close) # 0
                     /\ \A k \in 1..(i - 1) : pair_match(s, k, open, stop, close) = 0
             e == pair_match(s, i, open, stop, close)
         IN SubSeq(s, 1, i - 1) \o SubSeq(s, i + Len(open), e)
            \o strip_pairs(SubSeq(s, e + Len(close) + 1, Len(s)), open, stop, close)

\* link_re, \[([^\]]+)\]\([^)]+\) : the index of the closing parenthesis if the
\* pattern matches at i, 0 if it does not
link_match(s, i) ==
    LET e == pair_match(s, i, <<"[">>, "]", <<"]", "(">>)
        k == NextIndex(s, e + 3, ")")
    IN IF e # 0 /\ k > e + 3 THEN k ELSE 0

RECURSIVE replace_links(_)
\* link_re.replace_all(&text, "$1")
replace_links(s) ==
    IF \A i \in 1..Len(s) : link_match(s, i) = 0 THEN s
    ELSE LET i == CHOOSE i \in 1..Len(s) :
                     link_match(s, i) # 0 /\ \A k \in 1..(i - 1) : link_match(s, k) = 0
         IN SubSeq(s, 1, i - 1)
            \o SubSeq(s, i + 1, pair_match(s, i, <<"[">>, "]", <<"]", "(">>))
            \o replace_links(SubSeq(s, link_match(s, i) + 1, Len(s)))

\* markdown_to_plain
markdown_to_plain(markdown) ==
    LET headers == remove_headers(markdown)
        links == replace_links(headers)
        bold == strip_pairs(links, <<"*", "*">>, "*", <<"*", "*">>)
        italic == strip_pairs(bold, <<"*">>, "*", <<"*">>)
        code == SelectSeq(italic, LAMBDA ch : ch # BQ)
    IN trim(collapse_newlines(code))

PlainIdle ==
    /\ plain = None
    /\ pl_pc = "idle"

PlainInit ==
    /\ plain = None
    /\ pl_pc = "start"

\* Page::to_plain_text, from the return of to_markdown
ToPlainText ==
    /\ pl_pc = "start"
    /\ md_pc = "done"
    /\ plain' = Some(markdown_to_plain(output_of(md_state)))
    /\ pl_pc' = "done"
    /\ UNCHANGED <<axtree, walk_vars, iter_vars, ax_vars, cl_vars, md_vars, ex_vars, after_pl>>

\* ================================================================ fetch.rs
\* The browser and the network are the environment: a call to them succeeds or fails,
\* and a load that succeeds delivers web.html and, on request, web.tree.

use_ax_tree(f) == f.javascript /\ f.browser /\ f.extraction_method = "Accessibility"

\* Page { url, title, html, content }
PageOf(content) ==
    [url |-> base_url, title |-> extract_title(html[1]), html |-> html[1],
     content |-> content]

FetchIdle ==
    /\ fetcher = [javascript |-> FALSE, browser |-> FALSE,
                  extraction_method |-> "Readability", extract_content |-> FALSE]
    /\ web = [html |-> Element("html", NoAttrs, <<>>), tree |-> EmptyTree]
    /\ fetch_pc = "idle"
    /\ net = [loads |-> 0, requests |-> 0]
    /\ html = None
    /\ tree_result = "none"
    /\ fetched = None

FetchInit ==
    /\ fetch_pc = "start"
    /\ net = [loads |-> 0, requests |-> 0]
    /\ html = None
    /\ tree_result = "none"
    /\ fetched = None

fetch_rest ==
    <<walk_vars, iter_vars, cl_vars, md_vars, pl_vars, hist_vars, tab_vars, app_vars>>

\* Fetcher::fetch, up to the call of fetch_with_ax_tree, fetch_with_browser or
\* fetch_with_http
Fetch ==
    /\ fetch_pc = "start"
    /\ \E parsed \in BOOLEAN :
          IF parsed
          THEN /\ fetch_pc' = IF fetcher.javascript /\ fetcher.browser
                              THEN "new_page" ELSE "http"
               /\ UNCHANGED fetched
          ELSE /\ fetch_pc' = "done"
               /\ fetched' = Some(Err("UrlError"))
    /\ UNCHANGED <<fetcher, web, net, html, tree_result, axtree, ax_vars, ex_vars, fetch_rest>>

\* fetch_with_ax_tree and fetch_with_browser: browser.new_page(url)
NewPage ==
    /\ fetch_pc = "new_page"
    /\ net' = [net EXCEPT !.loads = @ + 1]
    /\ \E ok \in BOOLEAN :
          IF ok
          THEN fetch_pc' = "wait_for_navigation" /\ UNCHANGED fetched
          ELSE fetch_pc' = "done" /\ fetched' = Some(Err("BrowserError"))
    /\ UNCHANGED <<fetcher, web, html, tree_result, axtree, ax_vars, ex_vars, fetch_rest>>

\* page.wait_for_navigation()
WaitForNavigation ==
    /\ fetch_pc = "wait_for_navigation"
    /\ \E ok \in BOOLEAN :
          IF ok
          THEN fetch_pc' = "content" /\ UNCHANGED fetched
          ELSE fetch_pc' = "done" /\ fetched' = Some(Err("BrowserError"))
    /\ UNCHANGED <<fetcher, web, net, html, tree_result, axtree, ax_vars, ex_vars, fetch_rest>>

\* page.content(), and extract_title
Content ==
    /\ fetch_pc = "content"
    /\ \E ok \in BOOLEAN :
          IF ok
          THEN /\ html' = Some(web.html)
               /\ fetch_pc' = IF use_ax_tree(fetcher) /\ fetcher.extract_content
                              THEN "fetch_ax_tree" ELSE "readability"
               /\ UNCHANGED fetched
          ELSE /\ fetch_pc' = "done"
               /\ fetched' = Some(Err("BrowserError"))
               /\ UNCHANGED html
    /\ UNCHANGED <<fetcher, web, net, tree_result, axtree, ax_vars, ex_vars, fetch_rest>>

\* fetch_with_http: client.get(url).send(), response.text()
FetchWithHttp ==
    /\ fetch_pc = "http"
    /\ net' = [net EXCEPT !.requests = @ + 1]
    /\ \E ok \in BOOLEAN :
          IF ok
          THEN /\ html' = Some(web.html)
               /\ fetch_pc' = "readability"
               /\ UNCHANGED fetched
          ELSE /\ fetch_pc' = "done"
               /\ fetched' = Some(Err("HttpError"))
               /\ UNCHANGED html
    /\ UNCHANGED <<fetcher, web, tree_result, axtree, ax_vars, ex_vars, fetch_rest>>

\* let content = if self.config.extract_content { Some(extract_content(&html, &url)?) }
\* else { None }: up to the call of extract_content, or to the return of the Page
Readability ==
    /\ fetch_pc = "readability"
    /\ IF fetcher.extract_content
       THEN /\ page' = html[1]
            /\ ex_pc' = "start"
            /\ fetch_pc' = "extracting"
            /\ UNCHANGED fetched
       ELSE /\ fetched' = Some(Ok(PageOf(None)))
            /\ fetch_pc' = "done"
            /\ UNCHANGED <<page, ex_pc>>
    /\ UNCHANGED <<fetcher, web, net, html, tree_result, found, extracted, axtree, ax_vars,
                   fetch_rest>>

\* fetch_with_ax_tree whose fallback loads the page again over HTTP
FetchAxTreeRefetch ==
    /\ fetch_pc = "fetch_ax_tree"
    /\ \E ok \in BOOLEAN :
          IF ok
          THEN /\ tree_result' = "ok"
               /\ axtree' = web.tree
               /\ ax_pc' = "start"
               /\ fetch_pc' = "converting"
          ELSE /\ tree_result' = "err"
               /\ fetch_pc' = "http"
               /\ UNCHANGED <<axtree, ax_pc>>
    /\ UNCHANGED <<fetcher, web, net, html, fetched, converter, ax_stack, ex_vars, fetch_rest>>

\* fetch_with_ax_tree: match fetch_ax_tree(&page).await, up to the call of
\* ax_tree_to_markdown or of extract_content
FetchAxTree ==
    /\ fetch_pc = "fetch_ax_tree"
    /\ \E ok \in BOOLEAN :
          IF ok
          THEN /\ tree_result' = "ok"
               /\ axtree' = web.tree
               /\ ax_pc' = "start"
               /\ fetch_pc' = "converting"
               /\ UNCHANGED <<page, ex_pc>>
          ELSE /\ tree_result' = "err"
               /\ page' = html[1]
               /\ ex_pc' = "start"
               /\ fetch_pc' = "extracting"
               /\ UNCHANGED <<axtree, ax_pc>>
    /\ UNCHANGED <<fetcher, web, net, html, fetched, converter, ax_stack, found, extracted,
                   fetch_rest>>

\* fetch_with_ax_tree, from the return of ax_tree_to_markdown
FetchConverted ==
    /\ fetch_pc = "converting"
    /\ ax_pc = "done"
    /\ fetched' = Some(Ok(PageOf(Some([text |-> converter.output,
                                       title |-> extract_title(html[1]),
                                       links |-> converter.links]))))
    /\ fetch_pc' = "done"
    /\ UNCHANGED <<fetcher, web, net, html, tree_result, axtree, ax_vars, ex_vars, fetch_rest>>

\* from the return of extract_content: the `?`, and the Page
FetchExtracted ==
    /\ fetch_pc = "extracting"
    /\ ex_pc = "done"
    /\ fetched' = IF extracted[1].ok THEN Some(Ok(PageOf(Some(extracted[1].value))))
                  ELSE extracted
    /\ fetch_pc' = "done"
    /\ UNCHANGED <<fetcher, web, net, html, tree_result, axtree, ax_vars, ex_vars, fetch_rest>>


\* the calls made on a History, the tabs a TabManager holds and the tabs ever created
MaxCalls == 6
MaxTabs == 3
MaxSerial == 5

\* ====================================================== fox-tui: history.rs
\* A HistoryEntry's timestamp is left out; save() writes the entries to disk and add
\* drops its result.

\* Vec::get: the element at an index that counts from 0
vec_get(v, index) == IF index + 1 \in 1..Len(v) THEN Some(v[index + 1]) ELSE None

\* History::new
NewHistory ==
    [entries |-> <<>>, position |-> 0, session_stack |-> <<>>, max_entries |-> 10000]

\* History::add that keeps the entries after the position
add_keep_forward(h, url, title) ==
    LET pushed == Append(h.entries, [url |-> url, title |-> title])
    IN [h EXCEPT !.entries = IF Len(pushed) > h.max_entries THEN Tail(pushed) ELSE pushed,
                 !.session_stack = Append(@, url),
                 !.position = Len(h.session_stack) + 1]

\* History::add
add(h, url, title) ==
    LET pushed == Append(h.entries, [url |-> url, title |-> title])
        truncated == IF h.position < Len(h.session_stack)
                     THEN SubSeq(h.session_stack, 1, h.position)
                     ELSE h.session_stack
    IN [h EXCEPT !.entries = IF Len(pushed) > h.max_entries THEN Tail(pushed) ELSE pushed,
                 !.session_stack = Append(truncated, url),
                 !.position = Len(truncated) + 1]

\* History::back that returns the entry it leaves
back_stale(h) ==
    IF h.position > 1
    THEN [h |-> [h EXCEPT !.position = @ - 1],
          ret |-> vec_get(h.session_stack, h.position - 1)]
    ELSE [h |-> h, ret |-> None]

\* History::back: the history it leaves and the value it returns
back(h) ==
    IF h.position > 1
    THEN [h |-> [h EXCEPT !.position = @ - 1],
          ret |-> vec_get(h.session_stack, (h.position - 1) - 1)]
    ELSE [h |-> h, ret |-> None]

\* History::forward
forward(h) ==
    IF h.position < Len(h.session_stack)
    THEN [h |-> [h EXCEPT !.position = @ + 1],
          ret |-> vec_get(h.session_stack, (h.position + 1) - 1)]
    ELSE [h |-> h, ret |-> None]

\* History::can_go_back
can_go_back(h) == h.position > 1

\* History::can_go_forward
can_go_forward(h) == h.position < Len(h.session_stack)

HistoryIdle ==
    /\ history = NewHistory
    /\ hist_log = <<>>

hist_rest ==
    <<axtree, walk_vars, iter_vars, ax_vars, cl_vars, md_vars, ex_vars, pl_vars, fetch_vars,
      tab_vars, app_vars>>

\* a call is logged with its argument and the value it returned
Logged(op, arg, ret) == hist_log' = Append(hist_log, [op |-> op, arg |-> arg, ret |-> ret])

HistoryAdd(url) ==
    /\ Len(hist_log) < MaxCalls
    /\ history' = add(history, url, None)
    /\ Logged("add", url, None)
    /\ UNCHANGED hist_rest

HistoryBack ==
    /\ Len(hist_log) < MaxCalls
    /\ history' = back(history).h
    /\ Logged("back", None, back(history).ret)
    /\ UNCHANGED hist_rest

HistoryForward ==
    /\ Len(hist_log) < MaxCalls
    /\ history' = forward(history).h
    /\ Logged("forward", None, forward(history).ret)
    /\ UNCHANGED hist_rest

CanGoBack ==
    /\ Len(hist_log) < MaxCalls
    /\ Logged("can_go_back", None, can_go_back(history))
    /\ UNCHANGED <<history, hist_rest>>

CanGoForward ==
    /\ Len(hist_log) < MaxCalls
    /\ Logged("can_go_forward", None, can_go_forward(history))
    /\ UNCHANGED <<history, hist_rest>>

\* ========================================================= fox-tui: tabs.rs
\* Every Tab::new() is the same value; a tab carries the serial number of its creation
\* so that the tabs of a manager can be told apart.

\* the rendered_lines of Tab::default(): the welcome screen
WelcomeLines ==
    <<
      <<>>,
      <<" ", " ", "W", "e", "l", "c", "o", "m", "e", " ", "t", "o", " ", "F", "o", "x", " ", "-", " ", "T", "e", "r", "m", "i", "n", "a", "l", " ", "W", "e", "b", " ", "B", "r", "o", "w", "s", "e", "r">>,
      <<>>,
      <<" ", " ", "C", "o", "m", "m", "a", "n", "d", "s", ":">>,
      <<" ", " ", " ", " ", ":", "o", " ", "<", "u", "r", "l", ">", " ", " ", "-", " ", "O", "p", "e", "n", " ", "a", " ", "U", "R", "L">>,
      <<" ", " ", " ", " ", ":", "t", " ", "<", "u", "r", "l", ">", " ", " ", "-", " ", "O", "p", "e", "n", " ", "i", "n", " ", "n", "e", "w", " ", "t", "a", "b">>,
      <<" ", " ", " ", " ", ":", "q", " ", " ", " ", " ", " ", " ", " ", " ", "-", " ", "Q", "u", "i", "t">>,
      <<>>,
      <<" ", " ", "N", "a", "v", "i", "g", "a", "t", "i", "o", "n", ":">>,
      <<" ", " ", " ", " ", "j", "/", "k", " ", " ", " ", " ", " ", " ", " ", "-", " ", "S", "c", "r", "o", "l", "l", " ", "d", "o", "w", "n", "/", "u", "p">>,
      <<" ", " ", " ", " ", "g", "g", "/", "G", " ", " ", " ", " ", " ", " ", "-", " ", "T", "o", "p", "/", "b", "o", "t", "t", "o", "m">>,
      <<" ", " ", " ", " ", "C", "t", "r", "l", "-", "d", "/", "u", " ", " ", "-", " ", "H", "a", "l", "f", " ", "p", "a", "g", "e", " ", "d", "o", "w", "n", "/", "u", "p">>,
      <<" ", " ", " ", " ", "f", " ", " ", " ", " ", " ", " ", " ", " ", " ", "-", " ", "F", "o", "l", "l", "o", "w", " ", "l", "i", "n", "k", " ", "(", "h", "i", "n", "t", " ", "m", "o", "d", "e", ")">>,
      <<" ", " ", " ", " ", "H", "/", "L", " ", " ", " ", " ", " ", " ", " ", "-", " ", "H", "i", "s", "t", "o", "r", "y", " ", "b", "a", "c", "k", "/", "f", "o", "r", "w", "a", "r", "d">>,
      <<>>,
      <<" ", " ", "T", "a", "b", "s", ":">>,
      <<" ", " ", " ", " ", "g", "t", "/", "g", "T", " ", " ", " ", " ", " ", "-", " ", "N", "e", "x", "t", "/", "p", "r", "e", "v", "i", "o", "u", "s", " ", "t", "a", "b">>,
      <<" ", " ", " ", " ", "d", " ", " ", " ", " ", " ", " ", " ", " ", " ", "-", " ", "C", "l", "o", "s", "e", " ", "t", "a", "b">>,
      <<>>
    >>

\* Tab::new
NewTab(serial) ==
    [serial |-> serial, page |-> None, rendered_lines |-> WelcomeLines, scroll_offset |-> 0,
     viewport_height |-> 24, viewport_width |-> 80, selected_link |-> None,
     form_field_index |-> 0]

\* TabManager::new
NewTabManager == [tabs |-> <<NewTab(0)>>, current |-> 0]

\* Vec::remove at an index that counts from 0
vec_remove(v, index) == SubSeq(v, 1, index) \o SubSeq(v, index + 2, Len(v))

\* TabManager::new_tab
new_tab(m, tab) == [tabs |-> Append(m.tabs, tab), current |-> Len(Append(m.tabs, tab)) - 1]

\* TabManager::close_current that keeps the index after the removal
close_current_keep_index(m) ==
    IF Len(m.tabs) > 1
    THEN [tabs |-> vec_remove(m.tabs, m.current), current |-> m.current]
    ELSE m

\* TabManager::close_current
close_current(m) ==
    IF Len(m.tabs) > 1
    THEN LET removed == vec_remove(m.tabs, m.current)
         IN [tabs |-> removed,
             current |-> IF m.current >= Len(removed) THEN Len(removed) - 1 ELSE m.current]
    ELSE m

\* TabManager::next_tab
next_tab(m) == [m EXCEPT !.current = (@ + 1) % Len(m.tabs)]

\* TabManager::prev_tab
prev_tab(m) == [m EXCEPT !.current = IF @ = 0 THEN Len(m.tabs) - 1 ELSE @ - 1]

\* TabManager::go_to_tab
go_to_tab(m, index) == IF index < Len(m.tabs) THEN [m EXCEPT !.current = index] ELSE m

TabsIdle ==
    /\ tab_manager = NewTabManager
    /\ tab_prev = NewTabManager
    /\ tab_call = [op |-> "new", index |-> 0]
    /\ tab_serial = 1

tab_rest ==
    <<axtree, walk_vars, iter_vars, ax_vars, cl_vars, md_vars, ex_vars, pl_vars, fetch_vars,
      hist_vars, app_vars>>

\* the call and the manager it was made on are kept next to the manager it left
Called(op, index) ==
    /\ tab_prev' = tab_manager
    /\ tab_call' = [op |-> op, index |-> index]
    /\ UNCHANGED tab_rest

TabNew ==
    /\ Len(tab_manager.tabs) < MaxTabs
    /\ tab_serial < MaxSerial
    /\ tab_manager' = new_tab(tab_manager, NewTab(tab_serial))
    /\ tab_serial' = tab_serial + 1
    /\ Called("new_tab", 0)

TabCloseCurrent ==
    /\ tab_manager' = close_current(tab_manager)
    /\ UNCHANGED tab_serial
    /\ Called("close_current", 0)

TabNext ==
    /\ tab_manager' = next_tab(tab_manager)
    /\ UNCHANGED tab_serial
    /\ Called("next_tab", 0)

TabPrev ==
    /\ tab_manager' = prev_tab(tab_manager)
    /\ UNCHANGED tab_serial
    /\ Called("prev_tab", 0)

TabGoTo(index) ==
    /\ tab_manager' = go_to_tab(tab_manager, index)
    /\ UNCHANGED tab_serial
    /\ Called("go_to_tab", index)

\* ============================================================ fox-tui: app.rs
\* the status App::new starts with
WelcomeStatus ==
    <<"W", "e", "l", "c", "o", "m", "e", " ", "t", "o", " ", "F", "o", "x", "!", " ", "P", "r", "e", "s", "s", " ", ":", " ", "t", "o", " ", "e", "n", "t", "e", "r", " ", "c", "o", "m", "m", "a", "n", "d", "s", ",", " ", "o", "r", " ", ":", "o", " ", "<", "u", "r", "l", ">", " ", "t", "o", " ", "n", "a", "v", "i", "g", "a", "t", "e">>

\* App::new: the status line; no key was handled
AppIdle ==
    /\ status = Some(WelcomeStatus)
    /\ key = None

AfterPlainIdle == FetchIdle /\ HistoryIdle /\ TabsIdle /\ AppIdle

OuterIdle == ExtractIdle /\ PlainIdle /\ AfterPlainIdle


\* ============================================================ specifications

\* ---- the cleanup passes on every string of at most MaxLen characters
InitCleanup ==
    /\ OuterIdle
    /\ axtree = EmptyTree
    /\ WalkIdle /\ IterIdle /\ AxIdle /\ MdIdle
    /\ cl_fn \in {"cleanup_output", "clean_markdown"}
    /\ cl_input \in StringsUpTo(CleanupAlphabet, MaxLen)
    /\ cl_cur = cl_input
    /\ cl_prev = cl_input
    /\ cl_passes = 0

NextCleanup == CleanupOutputPass \/ CleanMarkdownPass

SpecCleanup == InitCleanup /\ [][NextCleanup]_vars

\* ---- walk, iter_depth_first and ax_tree_to_markdown over partial (acyclic) trees
Shape(root_id, child_ids) == [root_id |-> root_id, child_ids |-> child_ids]

\* "nx" is an id no node has
TraverseShapes ==
    {Shape(Some("n0"), ("n0" :> <<"n1", "n2", "n3">>) @@ ("n1" :> <<>>) @@ ("n2" :> <<>>)
                       @@ ("n3" :> <<>>)),
     Shape(Some("n0"), ("n0" :> <<"n1", "n2">>) @@ ("n1" :> <<"n3">>) @@ ("n2" :> <<>>)
                       @@ ("n3" :> <<>>)),
     Shape(Some("n0"), ("n0" :> <<"n1">>) @@ ("n1" :> <<"n2">>) @@ ("n2" :> <<"n3">>)
                       @@ ("n3" :> <<>>)),
     Shape(Some("n0"), ("n0" :> <<"nx", "n1", "n2">>) @@ ("n1" :> <<>>) @@ ("n2" :> <<"n3">>)
                       @@ ("n3" :> <<>>)),
     Shape(Some("n0"), ("n0" :> <<"n1", "nx", "n2">>) @@ ("n1" :> <<"n3", "nx">>)
                       @@ ("n2" :> <<>>) @@ ("n3" :> <<>>)),
     Shape(Some("n0"), ("n0" :> <<"n1">>) @@ ("n1" :> <<"nx", "n2">>) @@ ("n2" :> <<"n3">>)
                       @@ ("n3" :> <<>>)),
     Shape(Some("n0"), ("n0" :> <<"n1", "n2", "n1">>) @@ ("n1" :> <<"n3">>) @@ ("n2" :> <<>>)
                       @@ ("n3" :> <<>>)),
     Shape(Some("nx"), ("n0" :> <<"n1">>) @@ ("n1" :> <<>>)),
     Shape(None, ("n0" :> <<"n1">>) @@ ("n1" :> <<>>))}

RootWebArea == Node("RootWebArea", None, None, None, FALSE, NoProps)
StaticText(name) == Node("StaticText", Some(name), None, None, FALSE, NoProps)
Container(role) == Node(role, None, None, None, FALSE, NoProps)

TraverseTemplates == {Container("generic"), StaticText(<<"a">>), StaticText(<<"b">>)}

InitTraverse ==
    /\ OuterIdle
    /\ axtree \in Trees(TraverseShapes, {RootWebArea}, TraverseTemplates)
    /\ WalkInit /\ IterInit /\ AxInit /\ MdIdle
    /\ CleanupIdle

NextTraverse ==
    \/ Walk \/ WalkRecursive \/ WalkReturn
    \/ IterNew \/ IterNext
    \/ Convert \/ ConvertNode \/ CleanupOutput

SpecTraverse == InitTraverse /\ [][NextTraverse]_vars

\* ---- the same traversals over node maps whose child references form a cycle
CycleShapes ==
    {Shape(Some("n0"), ("n0" :> <<"n1">>) @@ ("n1" :> <<"n1">>)),
     Shape(Some("n0"), ("n0" :> <<"n1">>) @@ ("n1" :> <<"n2">>) @@ ("n2" :> <<"n1">>)),
     Shape(Some("n0"), ("n0" :> <<"n1", "n2">>) @@ ("n1" :> <<>>) @@ ("n2" :> <<"n0">>)),
     Shape(Some("n0"), ("n0" :> <<"n1">>) @@ ("n1" :> <<"n2">>) @@ ("n2" :> <<>>)),
     Shape(Some("n0"), ("n0" :> <<"n1", "n2">>) @@ ("n1" :> <<>>) @@ ("n2" :> <<>>))}

CycleTemplates ==
    {Container("generic"), StaticText(<<"a">>), Container("strong"), Container("tooltip")}

InitCycle ==
    /\ OuterIdle
    /\ axtree \in Trees(CycleShapes, {RootWebArea}, CycleTemplates)
    /\ WalkInit /\ IterInit /\ AxInit /\ MdIdle
    /\ CleanupIdle

WalkNext == Walk \/ WalkRecursive \/ WalkReturn
IterNextOrNew == IterNew \/ IterNext
ConvertNext == Convert \/ ConvertNode \/ AfterChildren \/ CleanupOutput

NextCycle == WalkNext \/ IterNextOrNew \/ ConvertNext

SpecCycle == InitCycle /\ [][NextCycle]_vars

\* ---- ax_tree_to_markdown over headings of every level, unrecognised roles and text
\* level is an i64 of the browser's making: negative, zero, in range and past h6
LevelValues == {-1, 0, 1, 2, 6, 7}

TotalShapes ==
    {Shape(Some("n0"), ("n0" :> <<"n1", "n2", "n3">>) @@ ("n1" :> <<>>) @@ ("n2" :> <<>>)
                       @@ ("n3" :> <<>>)),
     Shape(Some("n0"), ("n0" :> <<"n1">>) @@ ("n1" :> <<"n2">>) @@ ("n2" :> <<>>)),
     Shape(Some("n0"), ("n0" :> <<"n1">>) @@ ("n1" :> <<>>))}

Heading(name, level) == Node("heading", name, level, None, FALSE, NoProps)

HelloWorld == <<"H", "e", "l", "l", "o", " ", "W", "o", "r", "l", "d">>

TotalTemplates ==
    {Heading(Some(<<"T", "?">>), Some(l)) : l \in LevelValues}
    \cup {Heading(Some(<<"T", "?">>), None), Heading(None, Some(2)), Heading(Some(<<SP>>), Some(1)),
          Heading(Some(HelloWorld), Some(1)),
          StaticText(<<"a", "?">>), Container("generic"),
          Container("tooltip"), Node("tooltip", Some(<<"t", "?">>), None, None, FALSE, NoProps)}

InitTotal ==
    /\ OuterIdle
    /\ axtree \in Trees(TotalShapes, {RootWebArea}, TotalTemplates)
    /\ WalkIdle /\ IterIdle /\ AxInit /\ MdIdle
    /\ CleanupIdle

NextTotal == Convert \/ ConvertNode \/ CleanupOutput

SpecTotal == InitTotal /\ [][NextTotal]_vars

\* ---- both renderers on inputs with links: paragraphs, lists, tables
MaxBlocks == 2

Link(name, url) == Node("link", name, None, url, FALSE, NoProps)

LinkShapes ==
    {Shape(Some("n0"), ("n0" :> <<"n1", "n2", "n3">>) @@ ("n1" :> <<>>) @@ ("n2" :> <<>>)
                       @@ ("n3" :> <<>>)),
     Shape(Some("n0"), ("n0" :> <<"n1">>) @@ ("n1" :> <<"n2", "n3">>) @@ ("n2" :> <<>>)
                       @@ ("n3" :> <<>>)),
     Shape(Some("n0"), ("n0" :> <<"n1", "n3">>) @@ ("n1" :> <<"n2">>) @@ ("n2" :> <<>>)
                       @@ ("n3" :> <<>>)),
     Shape(Some("n0"), ("n0" :> <<"n1">>) @@ ("n1" :> <<"n2">>) @@ ("n2" :> <<"n3">>)
                       @@ ("n3" :> <<>>))}

LinkTemplates ==
    {Link(Some(<<"L", "?">>), Some(<<"u", "?">>)),
     Link(Some(<<"M", "?">>), None),
     Link(None, Some(<<"v", "?">>)),
     Container("paragraph"), Container("list"), Container("listitem"),
     Container("strong"),
     StaticText(<<"a", "?">>),
     Node("code", Some(<<"c", NL, NL, NL, NL, NL, "d">>), None, None, FALSE, NoProps),
     Heading(Some(<<"T", "?">>), Some(2))}

Anchor(href, kids) == Element("a", "href" :> href, kids)
Cell(tag, kids) == Element(tag, NoAttrs, kids)
Table(rows) == Element("table", NoAttrs, <<Element("tbody", NoAttrs, rows)>>)

\* the children of the fragment's root element, one or more in a row
HtmlBlocks ==
    {Text(<<"x", SP, SP, "y", SP>>),
     Anchor(<<"h", "t", "t", "p", ":", "/", "/", "e">>, <<Text(<<"L">>)>>),
     Anchor(<<"p">>, <<>>),
     Element("a", NoAttrs, <<Text(<<"N">>)>>),
     Comment,
     Element("p", NoAttrs, <<Text(<<"t", SP>>), Anchor(<<"/", "/", "e">>, <<Text(<<SP, "M", SP>>)>>)>>),
     Element("ul", NoAttrs,
             <<Element("li", NoAttrs, <<Anchor(<<"q">>, <<Element("b", NoAttrs, <<Text(<<"B">>)>>)>>)>>),
               Element("li", NoAttrs, <<Text(<<"i">>)>>)>>),
     Table(<<Cell("tr", <<Cell("td", <<Text(<<"c">>), Anchor(<<"r">>, <<Text(<<"K">>)>>)>>),
                          Cell("td", <<Text(<<"d">>)>>)>>)>>),
     Table(<<Cell("tr", <<Cell("th", <<Anchor(<<"h">>, <<Text(<<"H">>)>>)>>)>>),
             Cell("tr", <<Cell("td", <<Anchor(<<"s">>, <<Text(<<"J">>)>>)>>)>>)>>),
     Table(<<Cell("tr", <<Cell("td",
               <<Table(<<Cell("tr", <<Cell("td", <<Anchor(<<"n">>, <<Text(<<"A">>)>>)>>)>>)>>),
                 Anchor(<<"o">>, <<Text(<<"B">>)>>)>>)>>)>>),
     Element("pre", NoAttrs, <<Element("code", NoAttrs, <<Text(<<"c", NL, NL, NL, NL, "d">>)>>)>>),
     Element("h2", NoAttrs, <<Text(<<"T">>)>>)}

HtmlDocuments ==
    {Element("html", NoAttrs, kids) :
        kids \in UNION {[1..n -> HtmlBlocks] : n \in 1..MaxBlocks}}

InitRender ==
    /\ OuterIdle
    /\ WalkIdle /\ IterIdle /\ CleanupIdle
    /\ \/ /\ axtree \in Trees(LinkShapes, {RootWebArea}, LinkTemplates)
          /\ AxInit
          /\ MdIdle
       \/ /\ axtree = EmptyTree
          /\ AxIdle
          /\ document \in HtmlDocuments
          /\ base_url \in {AboutBlank, HttpBase}
          /\ MdInit

NextRender ==
    \/ Convert \/ ConvertNode \/ AfterChildren \/ CleanupOutput
    \/ MdNext

SpecRender == InitRender /\ [][NextRender]_vars


\* ================================================================== claims

\* ---- C5
\* C5: the final cleanup pass is idempotent: applying cleanup_output (AX renderer) or
\* clean_markdown (HTML renderer) to its own output changes nothing.
C5_CleanupIdempotent == cl_passes = 2 => cl_cur = cl_prev

\* a run of four newlines between text was cleaned, and cleaned again
C5_Witness ==
    /\ cl_passes = 2
    /\ contains(cl_input, <<"a", NL, NL, NL, NL, "a">>)
    /\ cl_cur # cl_input

\* ---- C6
\* the ids of a child list that name a node of the tree, in order
RECURSIVE ResolvableIds(_)
ResolvableIds(ids) ==
    IF ids = <<>> THEN <<>>
    ELSE (IF Head(ids) \in DOMAIN axtree.nodes THEN <<Head(ids)>> ELSE <<>>)
         \o ResolvableIds(Tail(ids))

\* the pre-order of the nodes below (and with) `id`, dangling ids left out
RECURSIVE PreOrderFrom(_)
RECURSIVE PreOrderAll(_)
PreOrderFrom(id) ==
    IF id \notin DOMAIN axtree.nodes THEN <<>>
    ELSE <<id>> \o PreOrderAll(axtree.nodes[id].child_ids)
PreOrderAll(ids) ==
    IF ids = <<>> THEN <<>> ELSE PreOrderFrom(Head(ids)) \o PreOrderAll(Tail(ids))

PreOrder == IF axtree.root_id = None THEN <<>> ELSE PreOrderFrom(Unwrap(axtree.root_id))

\* the names of the StaticText nodes in pre-order, below containers only
RECURSIVE TextFrom(_)
RECURSIVE TextAll(_)
TextFrom(id) ==
    IF id \notin DOMAIN axtree.nodes THEN <<>>
    ELSE IF axtree.nodes[id].role = "StaticText" THEN unwrap_or(axtree.nodes[id].name, <<>>)
    ELSE TextAll(axtree.nodes[id].child_ids)
TextAll(ids) == IF ids = <<>> THEN <<>> ELSE TextFrom(Head(ids)) \o TextAll(Tail(ids))

WalkedIds == [i \in 1..Len(walked) |-> walked[i][1]]

\* C6: a child id that resolves to no node is treated as absent, never as an error or a
\* stop: children() returns exactly the resolvable children in order, walk visits every
\* node the remaining ids lead to, and the converter emits the text of every one of them.
C6_DanglingChildIsAbsent ==
    /\ \A id \in DOMAIN axtree.nodes :
          LET kids == children(axtree.nodes[id]) IN
          [i \in 1..Len(kids) |-> kids[i].node_id] = ResolvableIds(axtree.nodes[id].child_ids)
    /\ walk_pc \in {"start", "recursing", "done"}
    /\ walk_pc = "done" => WalkedIds = PreOrder
    /\ ax_pc \in {"start", "converting", "done"}
    /\ (ax_pc = "converting" /\ ax_stack = <<>>) =>
          converter.output = (IF axtree.root_id = None THEN <<>>
                              ELSE TextFrom(Unwrap(axtree.root_id)))

\* a dangling id came first in the root's child list, and walk and the converter finished
\* having visited the three nodes behind it
C6_Witness ==
    /\ axtree.nodes["n0"].child_ids = <<"nx", "n1", "n2">>
    /\ walk_pc = "done"
    /\ WalkedIds = <<"n0", "n1", "n2", "n3">>
    /\ ax_pc = "done"
    /\ axtree.nodes["n1"].role = "StaticText"
    /\ axtree.nodes["n3"].role = "StaticText"
    /\ Len(converter.output) = 3

\* ---- C7
\* C7: iter_depth_first yields exactly the nodes the pre-order walk visits, in the same
\* order, for every tree, also one whose child lists hold ids with no node.
C7_IterYieldsWalkOrder ==
    (walk_pc = "done" /\ iter_pc = "done") => yielded = WalkedIds

\* ---- C8
\* C8: traversal terminates on every finite node map, also one whose child references
\* form a cycle: walk, iter_depth_first and ax_tree_to_markdown each finish (none of
\* them stops anywhere but at its end).
C8_TraversalsFinish ==
    /\ walk_pc = "done" \/ ENABLED WalkNext
    /\ iter_pc = "done" \/ ENABLED IterNextOrNew
    /\ ax_pc = "done" \/ ENABLED ConvertNext

\* ---- C9, C10: headings and unrecognised roles under SpecTotal

\* every convert_node call has returned and cleanup_output has not run yet: output is
\* the buffer as the arms wrote it
Converted == ax_pc = "converting" /\ ax_stack = <<>>

HeadingPrefix(level) == repeat(<<"#">>, Min(level, 6))

\* C9: ax_tree_to_markdown returns a String for every AXTree, headings of level zero
\* or below included: the conversion never aborts; and in the tree root -> n1 -> n2 a
\* node n1 of an unrecognised role emits its own text if it has any, and otherwise its
\* child n2 is rendered as n2's role says.
C9_ConverterIsTotal ==
    /\ ax_pc \in {"start", "converting", "done"}
    /\ (/\ Converted
        /\ axtree.nodes["n0"].child_ids = <<"n1">>
        /\ axtree.nodes["n1"].child_ids = <<"n2">>
        /\ axtree.nodes["n1"].role = "tooltip")
       => LET n1 == axtree.nodes["n1"]
              n2 == axtree.nodes["n2"]
          IN CASE n1.name # None -> converter.output = Unwrap(n1.name)
               [] n1.name = None /\ n2.role = "StaticText" ->
                    converter.output = Unwrap(n2.name)
               [] n1.name = None /\ n2.role = "heading" /\ n2.name = Some(<<"T", "2">>) ->
                    converter.output = HeadingPrefix(unwrap_or(n2.level, 1))
                                         \o <<SP, "T", "2", NL, NL>>
               [] OTHER -> TRUE

\* C10: once the tree is converted, every heading child of the root with level L >= 1
\* and a non-blank name T has a line of the output that is exactly min(L, 6) "#", one
\* space and T; and the tree root -> heading{level 1, name "Hello World"} gives an output
\* that is "# Hello World" once trimmed.
C10_HeadingLine ==
    /\ Converted =>
         \A i \in 1..Len(axtree.nodes["n0"].child_ids) :
            LET h == axtree.nodes[axtree.nodes["n0"].child_ids[i]]
            IN (/\ h.role = "heading"
                /\ h.level # None /\ Unwrap(h.level) >= 1
                /\ h.name # None /\ ~is_blank(Unwrap(h.name)))
               => \E k \in 1..Len(lines(converter.output)) :
                     lines(converter.output)[k]
                       = HeadingPrefix(Unwrap(h.level)) \o <<SP>> \o Unwrap(h.name)
    /\ (/\ ax_pc = "done"
        /\ axtree.nodes["n0"].child_ids = <<"n1">>
        /\ axtree.nodes["n1"] = [node_id |-> "n1", child_ids |-> <<>>]
                                  @@ Heading(Some(HelloWorld), Some(1)))
       => trim(converter.output) = <<"#", SP>> \o HelloWorld

\* ---- C1 - C4: links and the returned text under SpecRender

\* the buffer that becomes html_to_markdown_with_base's returned text
md_output == md_state.outputs[1]

IndexOf(seq, x) == CHOOSE i \in 1..Len(seq) : seq[i] = x

RECURSIVE IsSubsequence(_, _)
\* a is b with some elements left out
IsSubsequence(a, b) ==
    IF a = <<>> THEN TRUE
    ELSE IF b = <<>> THEN FALSE
    ELSE IF Head(a) = Head(b) THEN IsSubsequence(Tail(a), Tail(b))
    ELSE IsSubsequence(a, Tail(b))

TextAndUrl(links) == [i \in 1..Len(links) |-> [text |-> links[i].text, url |-> links[i].url]]

\* the link node a record of the AX renderer was made for: by its url, or by its name
\* where it has no url (every link node of LinkTemplates has a url or a name of its own)
IsNodeOf(id, l) ==
    LET node == axtree.nodes[id] IN
    /\ node.role = "link"
    /\ IF node.url # None THEN l.url = Unwrap(node.url)
       ELSE l.url = <<"#">> /\ node.name = Some(l.text)

\* the anchors with an href, in document order, as the records they are due
AnchorsInDocumentOrder ==
    LET anchors == SelectSeq(select(document, "a"), LAMBDA a : attr(a, "href") # None)
    IN [i \in 1..Len(anchors) |->
          [text |-> trim(text_of(anchors[i])),
           url |-> resolve_url(Unwrap(attr(anchors[i], "href")), base_url)]]

\* A new Link is the last of the list, its position is the length the returned buffer
\* has at that moment, and the character then appended to that buffer is "["
RecordedAtBracket(links, new_links, output, new_output) ==
    Len(new_links) > Len(links) =>
        /\ new_links[Len(new_links)].position = Len(output)
        /\ Len(new_output) > Len(output)
        /\ new_output[Len(output) + 1] = "["

\* C1: in both renderers, every step that records a Link records the current length of
\* the output buffer as its position and appends "[" to that buffer as the next
\* character, wherever the link is: in a paragraph, a list item or a table cell.
C1_LinkPositionIsBracket ==
    [][/\ RecordedAtBracket(converter.links, converter'.links,
                            converter.output, converter'.output)
       /\ RecordedAtBracket(md_state.links, md_state'.links, md_output, md_output')]_vars

\* C2: the Link list is in document order at every moment of a render: in the AX
\* renderer every record is the record of a link node and the nodes of two records
\* are in pre-order; in the HTML renderer the records are, in order, among the anchors
\* of the document in document order.
C2_LinksInDocumentOrder ==
    /\ ax_pc \in {"converting", "done"} =>
         \A j \in 1..Len(converter.links) :
            /\ \E id \in DOMAIN axtree.nodes : IsNodeOf(id, converter.links[j])
            /\ \A i \in 1..(j - 1) :
                 LET a == CHOOSE id \in DOMAIN axtree.nodes : IsNodeOf(id, converter.links[i])
                     b == CHOOSE id \in DOMAIN axtree.nodes : IsNodeOf(id, converter.links[j])
                 IN IndexOf(PreOrder, a) < IndexOf(PreOrder, b)
    /\ md_pc \in {"converting", "done"} =>
         IsSubsequence(TextAndUrl(md_state.links), AnchorsInDocumentOrder)

\* the first index after `from` where p occurs in s, or 0
find_from(s, p, from) ==
    IF \E i \in (from + 1)..(Len(s) - Len(p) + 1) : SubSeq(s, i, i + Len(p) - 1) = p
    THEN CHOOSE i \in (from + 1)..(Len(s) - Len(p) + 1) :
            /\ SubSeq(s, i, i + Len(p) - 1) = p
            /\ \A k \in (from + 1)..(i - 1) : SubSeq(s, k, k + Len(p) - 1) # p
    ELSE 0

RECURSIVE Spans(_, _)
\* the [text](url) spans of s after index `from`, in order
Spans(s, from) ==
    LET open == find_from(s, <<"[">>, from)
        mid == find_from(s, <<"]", "(">>, open)
        close == find_from(s, <<")">>, mid + 1)
    IN IF open = 0 \/ mid = 0 \/ close = 0 THEN <<>>
       ELSE <<[text |-> SubSeq(s, open + 1, mid - 1), url |-> SubSeq(s, mid + 2, close - 1)]>>
            \o Spans(s, close)

\* C3: when the walk is over, the [text](url) spans of the output and the Link records
\* are the same in number and order, and each record's text and url are those of its span.
C3_RecordsAreSpans ==
    /\ Converted => Spans(converter.output, 0) = TextAndUrl(converter.links)
    /\ (md_pc = "converting" /\ md_stack = <<>>) =>
         Spans(md_output, 0) = TextAndUrl(md_state.links)

WellFormed(text) ==
    \/ text = <<>>
    \/ /\ ~contains(text, <<NL, NL, NL>>)
       /\ ~is_whitespace(text[1])
       /\ Len(text) >= 2
       /\ text[Len(text)] = NL
       /\ ~is_whitespace(text[Len(text) - 1])

\* C4: the text either renderer returns is empty, or has no run of three newlines, no
\* leading whitespace, and ends with one newline that follows a non-whitespace character.
C4_ReturnedTextShape ==
    /\ ax_pc = "done" => WellFormed(converter.output)
    /\ md_pc = "done" => WellFormed(md_output)

C4_Witness ==
    /\ md_pc = "done"
    /\ Len(document.children) = 2
    /\ document.children[1].tag = "pre"
    /\ document.children[2].tag = "table"
    /\ contains(md_output, <<"c", NL, NL, "d", NL>>)
    /\ md_output[Len(md_output) - 1] = "|"

\* ------------------------------------------------------------------- lists

ListItem(name, properties) == Node("listitem", name, None, None, FALSE, properties)

\* a list of two items under the root; two siblings and then a list of one item
ListShapes ==
    {Shape(Some("n0"), ("n0" :> <<"n1">>) @@ ("n1" :> <<"n2", "n3">>) @@ ("n2" :> <<>>)
                       @@ ("n3" :> <<>>)),
     Shape(Some("n0"), ("n0" :> <<"n1", "n2", "n3">>) @@ ("n1" :> <<>>) @@ ("n2" :> <<>>)
                       @@ ("n3" :> <<"n4">>) @@ ("n4" :> <<>>))}

ListTemplates ==
    {Container("list"), ListItem(Some(<<"I", "?">>), NoProps),
     ListItem(Some(<<"I", "?">>), Props({"SetSize", "PosInSet"})),
     StaticText(<<"a", "?">>), Heading(Some(<<"T", "?">>), Some(1)), Container("paragraph")}

Li(text) == Element("li", NoAttrs, <<Text(text)>>)

ListBlocks ==
    {Element("ul", NoAttrs, <<Li(<<"O", "n", "e">>), Li(<<"T", "w", "o">>)>>),
     Element("ul", NoAttrs, <<Text(<<NL>>), Li(<<"O", "n", "e">>), Text(<<NL>>),
                              Li(<<"T", "w", "o">>), Text(<<NL>>)>>),
     Element("ol", NoAttrs, <<Li(<<"O", "n", "e">>), Li(<<"T", "w", "o">>)>>),
     Element("ul", NoAttrs, <<Li(<<"X">>)>>),
     Text(<<"a", "b">>),
     Element("p", NoAttrs, <<Text(<<"c">>)>>),
     Element("h2", NoAttrs, <<Text(<<"T">>)>>),
     Element("em", NoAttrs, <<Text(<<"e">>)>>)}

ListDocuments ==
    {Element("html", NoAttrs, kids) :
        kids \in UNION {[1..n -> ListBlocks] : n \in 1..MaxBlocks}}

InitList ==
    /\ OuterIdle
    /\ WalkIdle /\ IterIdle /\ CleanupIdle
    /\ \/ /\ axtree \in Trees(ListShapes, {RootWebArea}, ListTemplates)
          /\ AxInit
          /\ MdIdle
       \/ /\ axtree = EmptyTree
          /\ AxIdle
          /\ document \in ListDocuments
          /\ base_url = AboutBlank
          /\ MdInit

NextList ==
    \/ Convert \/ ConvertNode \/ AfterChildren \/ CleanupOutput
    \/ HtmlToMarkdownWithBase \/ ConvertText \/ ConvertTag \/ AfterTag \/ CleanMarkdown

SpecList == InitList /\ [][NextList]_vars

RECURSIVE LinesBeginWith(_, _)
\* some lines of ls, in their order, begin with the prefixes, one line for each prefix
LinesBeginWith(prefixes, ls) ==
    IF prefixes = <<>> THEN TRUE
    ELSE IF ls = <<>> THEN FALSE
    ELSE IF starts_with(ls[1], Head(prefixes)) THEN LinesBeginWith(Tail(prefixes), Tail(ls))
    ELSE LinesBeginWith(prefixes, Tail(ls))

\* the lists right under the root whose children are all named items that carry no
\* SetSize and no PosInSet property
UnorderedLists ==
    {id \in DOMAIN axtree.nodes :
        /\ axtree.root_id = Some("n0") /\ "n0" \in DOMAIN axtree.nodes
        /\ \E i \in 1..Len(axtree.nodes["n0"].child_ids) : axtree.nodes["n0"].child_ids[i] = id
        /\ axtree.nodes[id].role = "list"
        /\ axtree.nodes[id].child_ids # <<>>
        /\ \A i \in 1..Len(axtree.nodes[id].child_ids) :
              LET item == axtree.nodes[axtree.nodes[id].child_ids[i]] IN
              /\ item.role = "listitem"
              /\ item.name # None
              /\ DOMAIN item.properties = {}}

ItemLines(id) ==
    [i \in 1..Len(axtree.nodes[id].child_ids) |->
        <<"-", SP>> \o Unwrap(axtree.nodes[axtree.nodes[id].child_ids[i]].name)]

\* the ul elements right under the document root whose children are li elements of one
\* text each, and whitespace
UlIndexes ==
    {k \in 1..Len(document.children) :
        /\ document.children[k].kind = "element"
        /\ document.children[k].tag = "ul"
        /\ \E i \in 1..Len(document.children[k].children) :
              document.children[k].children[i].kind = "element"}

LiLines(ul) ==
    LET items == SelectSeq(ul.children, LAMBDA n : n.kind = "element")
    IN [i \in 1..Len(items) |-> <<"-", SP>> \o text_of(items[i])]

\* C11: a list whose items carry no set-size or position-in-set property renders each
\* item as a line of its own that begins with "- " and the item's text, the lines in the
\* order of the list's children: for a list/listitem subtree of the accessibility tree
\* and for the ul/li elements of an HTML document.
C11_UnorderedItemLines ==
    /\ Converted =>
          \A id \in UnorderedLists : LinesBeginWith(ItemLines(id), lines(converter.output))
    /\ (md_pc = "converting" /\ md_stack = <<>>) =>
          \A k \in UlIndexes : LinesBeginWith(LiLines(document.children[k]), lines(md_output))

\* ------------------------------------------------------ content extraction

MaxPageBlocks == 2

\* has_meaningful_content: text_len > 100
MeaningfulLength == 100
\* score_element: text_len > 50
CandidateLength == 50

Chars(ch, n) == [i \in 1..n |-> ch]

Attrs(name, value) == name :> value

\* the children of <body>, one to MaxPageBlocks of them in a row
PageBlocks ==
    {Element("article", NoAttrs, <<Text(Chars("x", MeaningfulLength))>>),
     Element("article", NoAttrs,
             <<Element("p", NoAttrs, <<Text(Chars("a", MeaningfulLength + 1))>>)>>),
     Element("main", NoAttrs,
             <<Element("p", NoAttrs, <<Text(Chars("m", MeaningfulLength + 1))>>)>>),
     Element("main", NoAttrs,
             <<Element("article", NoAttrs, <<Text(Chars("b", MeaningfulLength + 1))>>)>>),
     Element("div", Attrs("role", <<"m", "a", "i", "n">>), <<Text(Chars("r", MeaningfulLength + 1))>>),
     Element("div", Attrs("class", <<"p", "o", "s", "t", " ", "c", "o", "n", "t", "e", "n", "t">>),
             <<Text(Chars("k", MeaningfulLength + 1))>>),
     Element("nav", NoAttrs, <<Text(Chars("n", CandidateLength + 1))>>),
     Element("script", NoAttrs, <<Text(Chars("j", CandidateLength + 1))>>),
     Element("div", Attrs("class", <<"s", "i", "d", "e", "b", "a", "r", " ", "L", "e", "f", "t">>),
             <<Text(Chars("s", CandidateLength + 1))>>),
     Element("p", NoAttrs, <<Text(Chars("c", CandidateLength))>>),
     Element("p", NoAttrs, <<Text(Chars("d", CandidateLength + 1))>>),
     Element("p", NoAttrs, <<Text(Chars(EACUTE, CandidateLength \div 2 + 1))>>),
     Element("h1", NoAttrs, <<Text(<<"H">>)>>)}

Head_ == Element("head", NoAttrs, <<Element("title", NoAttrs, <<Text(<<SP, "T">>)>>)>>)

\* Html::parse_document of a page: <html> with <head> and <body>, or with a <frameset>
\* in the place of <body>
Pages ==
    {Element("html", NoAttrs, <<Head_, Element("body", NoAttrs, kids)>>) :
        kids \in UNION {[1..n -> PageBlocks] : n \in 1..MaxPageBlocks}}
    \cup {Element("html", NoAttrs,
                  <<Head_, Element("frameset", NoAttrs, <<Element("frame", NoAttrs, <<>>)>>)>>)}

InitExtract ==
    /\ axtree = EmptyTree
    /\ WalkIdle /\ IterIdle /\ AxIdle /\ CleanupIdle
    /\ page \in Pages
    /\ ExtractInit
    /\ PlainIdle /\ AfterPlainIdle
    /\ document = Element("html", NoAttrs, <<>>)
    /\ base_url = HttpBase
    /\ md_state = NewRender
    /\ md_stack = <<>>
    /\ md_pc = "idle"

NextExtract ==
    \/ ExtractContent
    \/ HtmlToMarkdownWithBase \/ ConvertText \/ ConvertTag \/ AfterTag \/ CleanMarkdown
    \/ ExtractReturn

SpecExtract == InitExtract /\ [][NextExtract]_vars

\* the matches of a selector that have more than 100 characters of trimmed text
QualifyingMatches(selector) ==
    SelectSeq(document_select(page, selector),
              LAMBDA e : Len(trim(text_of(e))) > MeaningfulLength)

\* C12: find_main_content honours the priority order article, main, [role=main], then
\* the content class and id names: it returns the fragment of a qualifying match (more
\* than 100 characters of trimmed text) of the earliest selector that has one; so a
\* document with an <article> of more than 100 characters gets an article back,
\* whatever <main> holds.
C12_PriorityOrder ==
    found # None =>
        \A i \in 1..Len(selectors_priority) :
            (/\ QualifyingMatches(selectors_priority[i]) # <<>>
             /\ \A k \in 1..(i - 1) : QualifyingMatches(selectors_priority[k]) = <<>>)
            => \E n \in 1..Len(QualifyingMatches(selectors_priority[i])) :
                  found = Some(Ok(QualifyingMatches(selectors_priority[i])[n]))

Range(seq) == {seq[i] : i \in DOMAIN seq}

RECURSIVE Descendants(_)
\* the elements below an element, in document order
Descendants(element) ==
    Concat([i \in 1..Len(element.children) |->
              IF element.children[i].kind = "element"
              THEN <<element.children[i]>> \o Descendants(element.children[i])
              ELSE <<>>])

\* find_main_content took the scored fallback and returned a fragment
ScoredFallback ==
    /\ found # None
    /\ priority_hits(page) = {}
    /\ found[1].ok

\* the <nav> and <script> elements and the elements whose class contains "sidebar"
ExcludedElements ==
    {e \in Range(Descendants(page)) :
        \/ e.tag \in {"nav", "script"}
        \/ attr(e, "class") # None /\ contains(Unwrap(attr(e, "class")), <<"s", "i", "d", "e", "b", "a", "r">>)}

\* C13: when the content is selected through the scored fallback, the Markdown that
\* extract_content returns holds no text of a <nav> element, of a <script> element or
\* of an element whose class attribute contains "sidebar".
C13_ExcludedTextAbsent ==
    (ScoredFallback /\ ex_pc = "done") =>
        \A e \in ExcludedElements :
            trim(text_of(e)) # <<>> => ~contains(extracted[1].value.text, trim(text_of(e)))

Bodies == document_select(page, TagSelector("body"))

\* no selector of the priority list has a match of more than 100 bytes of trimmed text
NoSelectorQualified ==
    \A i \in 1..Len(selectors_priority) :
        \A e \in Range(document_select(page, selectors_priority[i])) :
            len(trim(text_of(e))) <= MeaningfulLength

IsExcluded(e) ==
    \/ e.tag \in SkippedTags
    \/ attr(e, "class") # None
       /\ \E p \in NegativePatterns : contains(to_lowercase(Unwrap(attr(e, "class"))), p)

RECURSIVE NonExcludedUnder(_)
\* the elements below an element that are not excluded and lie in no excluded element
NonExcludedUnder(element) ==
    Concat([i \in 1..Len(element.children) |->
              LET kid == element.children[i] IN
              IF kid.kind = "element" /\ ~IsExcluded(kid)
              THEN <<kid>> \o NonExcludedUnder(kid)
              ELSE <<>>])

\* no non-excluded element under <body> has more than 50 bytes of trimmed text
NoCandidateUnderBody ==
    \A e \in Range(NonExcludedUnder(Bodies[1])) : len(trim(text_of(e))) <= CandidateLength

\* C14: find_main_content returns the ExtractionError only when the document has no
\* <body> and no priority selector qualified, and a fragment in every other case; when
\* no selector qualified and no non-excluded element under <body> has a trimmed text
\* longer than 50 (str::len, the measure of the code), the fragment is the whole <body>.
C14_ErrorOnlyWithoutBody ==
    found # None =>
        /\ ~found[1].ok <=> (Bodies = <<>> /\ NoSelectorQualified)
        /\ ~found[1].ok => found[1].value = "ExtractionError"
        /\ (Bodies # <<>> /\ NoSelectorQualified /\ NoCandidateUnderBody)
           => found = Some(Ok(Bodies[1]))

\* a <body> of one <p> of 50 characters: the scores stay empty and the whole <body> is
\* returned and rendered
C14_Witness ==
    /\ found # None
    /\ Bodies # <<>>
    /\ NoSelectorQualified /\ NoCandidateUnderBody
    /\ Len(Bodies[1].children) = 1
    /\ Bodies[1].children[1].tag = "p"
    /\ scores_after(score_element(Bodies[1], 0)) = {}
    /\ found = Some(Ok(Bodies[1]))
    /\ ex_pc = "done"
    /\ extracted[1].ok
    /\ extracted[1].value.text = Chars("c", CandidateLength) \o <<NL>>

\* ------------------------------------------------------------------ tables

RowIds == <<"r1", "r2">>
CellIds == <<<<"c11", "c12">>, <<"c21", "c22">>>>

AxCell(role, name) == Node(role, Some(name), None, None, FALSE, NoProps)

\* root -> table -> rows -> cells, the cells as given row by row
TableTree(rows) ==
    LET ids == {"n0", "t"} \cup {RowIds[r] : r \in 1..Len(rows)}
               \cup UNION {{CellIds[r][c] : c \in 1..Len(rows[r])} : r \in 1..Len(rows)}
    IN [root_id |-> Some("n0"),
        nodes |-> [id \in ids |->
            IF id = "n0" THEN [node_id |-> id, child_ids |-> <<"t">>] @@ RootWebArea
            ELSE IF id = "t"
            THEN [node_id |-> id, child_ids |-> [r \in 1..Len(rows) |-> RowIds[r]]]
                 @@ Container("table")
            ELSE IF \E r \in 1..Len(rows) : id = RowIds[r]
            THEN LET r == CHOOSE r \in 1..Len(rows) : id = RowIds[r]
                 IN [node_id |-> id, child_ids |-> [c \in 1..Len(rows[r]) |-> CellIds[r][c]]]
                    @@ Container("row")
            ELSE LET rc == CHOOSE rc \in (1..Len(rows)) \X (1..2) :
                               rc[2] <= Len(rows[rc[1]]) /\ id = CellIds[rc[1]][rc[2]]
                 IN [node_id |-> id, child_ids |-> <<>>] @@ rows[rc[1]][rc[2]]]]

AxCells ==
    {AxCell("cell", <<"a">>), AxCell("cell", <<"a", "b", "c", "d">>),
     AxCell("columnheader", <<"h">>), AxCell("cell", <<"x", NL, "y">>)}

\* one or two rows of one or two cells each
RowsOf(cells) ==
    LET row == UNION {[1..n -> cells] : n \in 1..2}
    IN UNION {[1..n -> row] : n \in 1..2}

HtmlCells ==
    {Cell("td", <<Text(<<"a">>)>>), Cell("td", <<Text(<<"a", "b", "c", "d">>)>>),
     Cell("th", <<Text(<<"h">>)>>), Cell("th", <<Text(<<"x", NL, "y">>)>>),
     Cell("td", <<Element("em", NoAttrs, <<Text(<<"e">>)>>)>>)}

TableDocument(rows) ==
    Element("html", NoAttrs,
            <<Table([r \in 1..Len(rows) |-> Element("tr", NoAttrs, rows[r])])>>)

InitTable ==
    /\ OuterIdle
    /\ WalkIdle /\ IterIdle /\ CleanupIdle
    /\ \/ /\ axtree \in {TableTree(rows) : rows \in RowsOf(AxCells)}
          /\ AxInit
          /\ MdIdle
       \/ /\ axtree = EmptyTree
          /\ AxIdle
          /\ document \in {TableDocument(rows) : rows \in RowsOf(HtmlCells)}
          /\ base_url = AboutBlank
          /\ MdInit

NextTable ==
    \/ Convert \/ ConvertNode \/ CleanupOutput
    \/ MdNext

SpecTable == InitTable /\ [][NextTable]_vars

\* the table's rows as the input has them: the texts of the cells of each row
InputRows ==
    IF axtree # EmptyTree
    THEN LET rows == axtree.nodes["t"].child_ids IN
         [r \in 1..Len(rows) |->
            [c \in 1..Len(axtree.nodes[rows[r]].child_ids) |->
                Unwrap(axtree.nodes[axtree.nodes[rows[r]].child_ids[c]].name)]]
    ELSE LET rows == document.children[1].children[1].children IN
         [r \in 1..Len(rows) |->
            [c \in 1..Len(rows[r].children) |-> trim(text_of(rows[r].children[c]))]]

\* the lines of the rendered table, before the cleanup of the whole text
TableLines ==
    SelectSeq(lines(IF axtree # EmptyTree THEN converter.output ELSE md_output),
              LAMBDA line : line # <<>>)

TableIsRendered ==
    \/ Converted
    \/ md_pc = "converting" /\ md_stack = <<>>

\* the indexes of the pipes of a line
Pipes(line) == SelectSeq([i \in 1..Len(line) |-> i], LAMBDA i : line[i] = "|")

\* the width of a line's column: what lies between two pipes, less the space on each side
ColumnWidth(line, col) == Pipes(line)[col + 1] - Pipes(line)[col] - 3

\* C15: all lines of a rendered table, content rows and separator, have the same number
\* of pipe-delimited columns, the largest cell count of any row, and every column is
\* padded to a width of at least 3 and of at least the longest cell of that column; in
\* the accessibility renderer and in the HTML renderer.
C15_TableColumns ==
    TableIsRendered =>
        LET num_cols == SeqMax([r \in 1..Len(InputRows) |-> Len(InputRows[r])]) IN
        \A k \in 1..Len(TableLines) :
            /\ Len(Pipes(TableLines[k])) = num_cols + 1
            /\ \A col \in 1..num_cols :
                  /\ ColumnWidth(TableLines[k], col) >= 3
                  /\ \A r \in 1..Len(InputRows) :
                        col <= Len(InputRows[r])
                        => ColumnWidth(TableLines[k], col) >= Len(InputRows[r][col])

\* ---------------------------------------------------- anchors without href

Bare(kids) == Element("a", NoAttrs, kids)

AnchorBlocks ==
    {Bare(<<Text(<<"N">>)>>),
     Bare(<<Element("b", NoAttrs, <<Text(<<"B">>)>>), Text(<<SP, "u", SP, SP>>)>>),
     Bare(<<>>),
     Element("p", NoAttrs, <<Text(<<"t", SP>>), Bare(<<Element("em", NoAttrs, <<Text(<<"e">>)>>)>>)>>),
     Element("ul", NoAttrs, <<Element("li", NoAttrs, <<Bare(<<Text(<<"i">>)>>)>>)>>),
     Table(<<Cell("tr", <<Cell("td", <<Bare(<<Text(<<"c">>)>>)>>)>>)>>),
     Element("h2", NoAttrs, <<Bare(<<Text(<<"T">>)>>)>>),
     Bare(<<Element("p", NoAttrs, <<Text(<<"q">>)>>)>>),
     Anchor(<<"h", "t", "t", "p", ":", "/", "/", "e">>, <<Text(<<"L">>)>>),
     Text(<<"x", SP>>)}

AnchorDocuments ==
    {Element("html", NoAttrs, kids) :
        kids \in UNION {[1..n -> AnchorBlocks] : n \in 1..MaxBlocks}}

InitAnchor ==
    /\ OuterIdle
    /\ axtree = EmptyTree
    /\ WalkIdle /\ IterIdle /\ AxIdle /\ CleanupIdle
    /\ document \in AnchorDocuments
    /\ base_url \in {AboutBlank, HttpBase}
    /\ MdInit

SpecAnchor == InitAnchor /\ [][MdNext]_vars

RECURSIVE Unwrapped(_)
\* the children of an element with every <a> that has no href replaced by its children
Unwrapped(kids) ==
    Concat([i \in 1..Len(kids) |->
              IF kids[i].kind # "element" THEN <<kids[i]>>
              ELSE IF kids[i].tag = "a" /\ attr(kids[i], "href") = None
              THEN Unwrapped(kids[i].children)
              ELSE <<[kids[i] EXCEPT !.children = Unwrapped(@)]>>])

\* one step of the renderer on the innermost pending call
md_step(s, frame, base) ==
    CASE frame.op = "text" -> MdDone(convert_text(s, frame.node))
      [] frame.op = "convert_tag" -> convert_tag(s, frame.node, base)
      [] frame.op = "after" -> MdDone(after_tag(s, frame.node))
      [] frame.op = "row" -> table_row(s, frame.node)
      [] frame.op = "cell" -> table_cell(s, frame.node)
      [] frame.op = "cell_end" -> MdDone(table_cell_end(s))
      [] frame.op = "row_end" -> MdDone(table_row_end(s))
      [] frame.op = "render" -> MdDone(table_render(s))

RECURSIVE md_run(_, _, _)
\* the renderer's state once every pending call has returned
md_run(s, stack, base) ==
    IF stack = <<>> THEN s
    ELSE md_run(md_step(s, Head(stack), base).s,
                md_step(s, Head(stack), base).calls \o Tail(stack), base)

BareAnchors == SelectSeq(select(document, "a"), LAMBDA a : attr(a, "href") = None)

\* C16: an <a> element without href is rendered as its inner content only: the output
\* and the Link list are those of the same document with the anchor's tags taken away,
\* its children converted in its place.
C16_AnchorWithoutHref ==
    (md_pc = "converting" /\ md_stack = <<>>) =>
        LET unwrapped == [document EXCEPT !.children = Unwrapped(@)] IN
        /\ md_output = output_of(md_run(NewRender, md_convert_element(unwrapped), base_url))
        /\ md_state.links = md_run(NewRender, md_convert_element(unwrapped), base_url).links

\* <a><b>B</b> u  </a> alone: the output is that of <b>B</b> and the text, no link
C16_Witness ==
    /\ md_pc = "converting" /\ md_stack = <<>>
    /\ document.children = <<Bare(<<Element("b", NoAttrs, <<Text(<<"B">>)>>),
                                    Text(<<SP, "u", SP, SP>>)>>)>>
    /\ md_output = <<"*", "*", "B", "*", "*", SP, "u", SP>>
    /\ md_state.links = <<>>

\* ------------------------------------------------------------- plain text

PlainBlocks ==
    {Element("h1", NoAttrs, <<Text(<<"T", "i", "t", "l", "e">>)>>),
     Element("h2", NoAttrs, <<Text(<<"U">>)>>),
     Element("p", NoAttrs,
             <<Element("strong", NoAttrs, <<Text(<<"b", "o", "l", "d">>)>>), Text(<<SP>>),
               Anchor(<<"u", "r", "l">>, <<Text(<<"l", "i", "n", "k">>)>>)>>),
     Element("p", NoAttrs,
             <<Element("em", NoAttrs, <<Text(<<"e">>)>>), Text(<<SP>>),
               Element("code", NoAttrs, <<Text(<<"c">>)>>)>>),
     Element("pre", NoAttrs, <<Element("code", NoAttrs, <<Text(<<"k", NL, "l">>)>>)>>),
     Text(<<"x">>)}

PlainDocuments ==
    {Element("html", NoAttrs, kids) :
        kids \in UNION {[1..n -> PlainBlocks] : n \in 1..MaxBlocks}}

\* Page::to_plain_text of a page without extracted content: html_to_markdown, then
\* markdown_to_plain
InitPlain ==
    /\ axtree = EmptyTree
    /\ WalkIdle /\ IterIdle /\ AxIdle /\ CleanupIdle /\ ExtractIdle /\ AfterPlainIdle
    /\ document \in PlainDocuments
    /\ base_url = AboutBlank
    /\ MdInit
    /\ PlainInit

NextPlain ==
    \/ HtmlToMarkdownWithBase \/ ConvertText \/ ConvertTag \/ AfterTag \/ CleanMarkdown
    \/ ToPlainText

SpecPlain == InitPlain /\ [][NextPlain]_vars

\* the line begins with one to six '#' and whitespace
IsHeadingLine(line) ==
    /\ LeadingCount(line, "#") \in 1..6
    /\ Len(line) > LeadingCount(line, "#")
    /\ is_whitespace(line[LeadingCount(line, "#") + 1])

\* C17: markdown_to_plain of the Markdown a renderer returned removes the header marker
\* of every heading line, replaces every [text](url) by its text, removes every ** and *
\* pair and every backtick, and leaves no run of three newlines; and
\* "# Title\n\n**bold** [link](url)" gives "Title\n\nbold link".
C17_PlainText ==
    pl_pc = "done" =>
        /\ \A k \in 1..Len(lines(plain[1])) : ~IsHeadingLine(lines(plain[1])[k])
        /\ \A i \in 1..Len(plain[1]) : plain[1][i] \notin {"*", BQ, "[", "]"}
        /\ ~contains(plain[1], <<NL, NL, NL>>)
        /\ document.children
              = <<Element("h1", NoAttrs, <<Text(<<"T", "i", "t", "l", "e">>)>>),
                  Element("p", NoAttrs,
                          <<Element("strong", NoAttrs, <<Text(<<"b", "o", "l", "d">>)>>), Text(<<SP>>),
                            Anchor(<<"u", "r", "l">>, <<Text(<<"l", "i", "n", "k">>)>>)>>)>>
           => plain[1] = <<"T", "i", "t", "l", "e">> \o <<NL, NL>> \o <<"b", "o", "l", "d", " ", "l", "i", "n", "k">>

\* ------------------------------------------------------------------ fetching
\* Every configuration of the Fetcher, against a URL that serves a page of at most one
\* block and a small accessibility tree; each call to the browser or the network may fail.
Fetchers ==
    [javascript : BOOLEAN, browser : BOOLEAN,
     extraction_method : {"Accessibility", "Readability"}, extract_content : BOOLEAN]

FetchPages ==
    {Element("html", NoAttrs, <<Head_, Element("body", NoAttrs, kids)>>) :
        kids \in {<<>>} \cup {<<b>> : b \in PageBlocks}}
    \cup {Element("html", NoAttrs,
                  <<Head_, Element("frameset", NoAttrs, <<Element("frame", NoAttrs, <<>>)>>)>>)}

FetchTrees ==
    Trees({Shape(Some("n0"), ("n0" :> <<"n1">>) @@ ("n1" :> <<>>))}, {RootWebArea},
          {StaticText(<<"a", "?">>), Heading(Some(<<"T", "?">>), Some(1))})

InitFetch ==
    /\ axtree = EmptyTree
    /\ WalkIdle /\ IterIdle /\ AxIdle /\ CleanupIdle
    /\ ExtractIdle /\ PlainIdle /\ HistoryIdle /\ TabsIdle /\ AppIdle
    /\ document = Element("html", NoAttrs, <<>>)
    /\ base_url = HttpBase
    /\ md_state = NewRender
    /\ md_stack = <<>>
    /\ md_pc = "idle"
    /\ fetcher \in Fetchers
    /\ web \in [html : FetchPages, tree : FetchTrees]
    /\ FetchInit

NextFetch ==
    \/ Fetch \/ NewPage \/ WaitForNavigation \/ Content \/ FetchWithHttp \/ Readability
    \/ FetchAxTree \/ FetchConverted \/ FetchExtracted
    \/ Convert \/ ConvertNode \/ CleanupOutput
    \/ ExtractContent
    \/ HtmlToMarkdownWithBase \/ ConvertText \/ ConvertTag \/ AfterTag \/ CleanMarkdown
    \/ ExtractReturn

SpecFetch == InitFetch /\ [][NextFetch]_vars

\* the fetch took the accessibility path and fetch_ax_tree failed
AxTreeFailed == use_ax_tree(fetcher) /\ fetcher.extract_content /\ tree_result = "err"

\* what the readability extraction makes of a content fragment
ReadabilityContent(content_html) ==
    LET rendered == md_run(NewRender, md_convert_element(parse_fragment(content_html)),
                           base_url)
    IN [text |-> clean_markdown(output_of(rendered)),
        title |-> extract_content_title(Unwrap(html)),
        links |-> rendered.links]

\* C18: when the accessibility path is taken and fetch_ax_tree fails, the fetch ends with
\* the readability extraction of the HTML the same browser page load delivered: the URL
\* was loaded once by the browser and never requested over HTTP, and the result is an
\* error exactly when find_main_content finds no content in that HTML.
C18_AxFallbackSameLoad ==
    (fetch_pc = "done" /\ AxTreeFailed) =>
        /\ net = [loads |-> 1, requests |-> 0]
        /\ html = Some(web.html)
        /\ fetched # None
        /\ ~fetched[1].ok =>
              /\ fetched[1].value = "ExtractionError"
              /\ \E r \in find_main_content(web.html) : ~r.ok
        /\ fetched[1].ok =>
              /\ fetched[1].value.html = web.html
              /\ \E r \in find_main_content(web.html) :
                    /\ r.ok
                    /\ fetched[1].value.content = Some(ReadabilityContent(r.value))

C18_Witness ==
    /\ fetch_pc = "done"
    /\ AxTreeFailed
    /\ fetched # None
    /\ fetched[1].ok
    /\ fetched[1].value.content # None
    /\ Len(fetched[1].value.content[1].text) > MeaningfulLength

\* ------------------------------------------------------------------- history
\* Every sequence of at most MaxCalls calls on a History::new(), over two URLs.
HistoryUrls == {<<"u", "/", "a">>, <<"u", "/", "b">>}

AllIdle ==
    /\ axtree = EmptyTree
    /\ WalkIdle /\ IterIdle /\ AxIdle /\ CleanupIdle /\ MdIdle
    /\ OuterIdle

InitHistory == AllIdle

NextHistory ==
    \/ \E url \in HistoryUrls : HistoryAdd(url)
    \/ HistoryBack \/ HistoryForward
    \/ CanGoBack \/ CanGoForward

SpecHistory == InitHistory /\ [][NextHistory]_vars

\* the calls that move through the history, in the order they were made
IsNavigation(call) == call.op \in {"add", "back", "forward"}
Navigation == SelectSeq(hist_log, IsNavigation)
CallsOf(op) == Cardinality({i \in DOMAIN Navigation : Navigation[i].op = op})

\* the calls were n adds, then only backs, then only forwards
AddsBacksForwards ==
    /\ CallsOf("add") >= 1
    /\ \A i \in DOMAIN Navigation :
          Navigation[i].op = IF i <= CallsOf("add") THEN "add"
                             ELSE IF i <= CallsOf("add") + CallsOf("back") THEN "back"
                             ELSE "forward"

InitTabs == AllIdle

NextTabs ==
    \/ TabNew \/ TabCloseCurrent \/ TabNext \/ TabPrev
    \/ \E index \in 0..MaxTabs : TabGoTo(index)

SpecTabs == InitTabs /\ [][NextTabs]_vars

\* the tabs of a manager but the one at an index that counts from 0
Without(tabs, index) ==
    [i \in 1..(Len(tabs) - 1) |-> IF i <= index THEN tabs[i] ELSE tabs[i + 1]]

\* C20: there is always a tab and current is the index of one; close_current removes the
\* current tab and no other when there are several, and changes nothing when there is one;
\* new_tab appends a tab and makes it current; next_tab and then prev_tab restore current.
C20_TabManager ==
    /\ Len(tab_manager.tabs) >= 1
    /\ tab_manager.current \in 0..(Len(tab_manager.tabs) - 1)
    /\ tab_call.op = "close_current" =>
          IF Len(tab_prev.tabs) > 1
          THEN tab_manager.tabs = Without(tab_prev.tabs, tab_prev.current)
          ELSE tab_manager = tab_prev
    /\ tab_call.op = "new_tab" =>
          /\ Len(tab_manager.tabs) = Len(tab_prev.tabs) + 1
          /\ SubSeq(tab_manager.tabs, 1, Len(tab_prev.tabs)) = tab_prev.tabs
          /\ tab_manager.tabs[Len(tab_manager.tabs)] \notin Range(tab_prev.tabs)
          /\ tab_manager.current = Len(tab_manager.tabs) - 1
    /\ prev_tab(next_tab(tab_manager)).current = tab_manager.current
    /\ prev_tab(next_tab(tab_manager)).tabs = tab_manager.tabs

C20_Witness ==
    /\ tab_call.op = "close_current"
    /\ Len(tab_prev.tabs) = 3
    /\ tab_prev.current = 1
    /\ tab_manager.tabs = <<tab_prev.tabs[1], tab_prev.tabs[3]>>
    /\ tab_manager.current = 1

\* ---------------------------------------------------- skipped nodes and roles
\* ax_tree_to_markdown over chains root - n1 - n2 [- n3] of enclosing roles, skipped
\* roles, ignored nodes and text.
Ignored(node) == [node EXCEPT !.ignored = TRUE]

SkipShapes ==
    {Shape(Some("n0"), ("n0" :> <<"n1">>) @@ ("n1" :> <<"n2">>) @@ ("n2" :> <<>>)),
     Shape(Some("n0"), ("n0" :> <<"n1">>) @@ ("n1" :> <<"n2">>) @@ ("n2" :> <<"n3">>)
                       @@ ("n3" :> <<>>))}

SkipTemplates ==
    {StaticText(<<"s", "?">>), Ignored(StaticText(<<"s", "?">>)),
     Container("paragraph"), Container("heading"), Container("listitem"), Container("note"),
     Container("generic"), Container("none"), Container("presentation"),
     Ignored(Container("generic")), Ignored(Container("paragraph")),
     Container("LineBreak"), Container("InlineTextBox"),
     Container("navigation"), Container("menu")}

InitSkip ==
    /\ OuterIdle
    /\ axtree \in Trees(SkipShapes, {RootWebArea}, SkipTemplates)
    /\ WalkIdle /\ IterIdle /\ AxInit /\ MdIdle
    /\ CleanupIdle

NextSkip == Convert \/ ConvertNode \/ AfterChildren \/ CleanupOutput

SpecSkip == InitSkip /\ [][NextSkip]_vars

\* the nodes below a node
Below(id) == Range(PreOrderFrom(id)) \ {id}

\* the names of the StaticText nodes among a set of nodes
TextsOf(ids) ==
    {Unwrap(axtree.nodes[id].name) :
        id \in {i \in ids : axtree.nodes[i].role = "StaticText" /\ axtree.nodes[i].name # None}}

\* convert_node has been, or is about to be, called on one of the nodes
Visits(ids) == \E i \in DOMAIN ax_stack : ax_stack[i].op = "convert_node" /\ ax_stack[i].id \in ids

SkippedWhole(id) ==
    axtree.nodes[id].ignored \/ axtree.nodes[id].role \in {"LineBreak", "InlineTextBox"}

\* C21: convert_node is never called on a node below an ignored, LineBreak or
\* InlineTextBox node, and once the tree is converted the output holds no text of such a
\* node or of a node below it; the text directly below a non-ignored none, presentation
\* or generic child of the root is in the output.
C21_IgnoredSkippedWhole ==
    /\ \A id \in DOMAIN axtree.nodes :
          SkippedWhole(id) => ~Visits(Below(id))
    /\ Converted =>
          /\ \A id \in DOMAIN axtree.nodes :
                SkippedWhole(id) =>
                    \A text \in TextsOf(Below(id) \cup {id}) : ~contains(converter.output, text)
          /\ \A id \in DOMAIN axtree.nodes :
                (/\ id \in Range(axtree.nodes["n0"].child_ids)
                 /\ ~axtree.nodes[id].ignored
                 /\ axtree.nodes[id].role \in {"none", "presentation", "generic"})
                => \A kid \in Range(axtree.nodes[id].child_ids) :
                      ~axtree.nodes[kid].ignored
                          => \A text \in TextsOf({kid}) : contains(converter.output, text)

\* C22: once the tree is converted the output holds no text of a StaticText node below a
\* node with one of the skipped roles.
C22_SkippedRolesText ==
    Converted =>
        \A id \in DOMAIN axtree.nodes :
            axtree.nodes[id].role \in SkippedRoles =>
                \A text \in TextsOf(Below(id)) : ~contains(converter.output, text)

\* -------------------------------------------------------------- block spacing
\* ax_tree_to_markdown over three units below the root, each a block or inline content,
\* and over a unit followed by a list of one item.
BlockTemplates ==
    {Heading(Some(<<"T", "?">>), Some(1)),
     Node("paragraph", Some(<<"P", "?">>), None, None, FALSE, NoProps),
     Node("blockquote", Some(<<"Q", "?">>), None, None, FALSE, NoProps),
     Node("code", Some(<<"c", "?", NL, "d">>), None, None, FALSE, NoProps),
     Container("separator")}

InlineTemplates ==
    {StaticText(<<"a", "?">>),
     Link(Some(<<"L", "?">>), Some(<<"u", "?">>)),
     Node("code", Some(<<"k", "?">>), None, None, FALSE, NoProps),
     Node("image", Some(<<"i", "?">>), None, Some(<<"w", "?">>), FALSE, NoProps),
     Node("button", Some(<<"b", "?">>), None, None, FALSE, NoProps)}

SpacingTrees ==
    Trees({Shape(Some("n0"), ("n0" :> <<"n1", "n2", "n3">>) @@ ("n1" :> <<>>)
                             @@ ("n2" :> <<>>) @@ ("n3" :> <<>>))},
          {RootWebArea}, BlockTemplates \cup InlineTemplates)
    \cup {MkTree(Shape(Some("n0"), ("n0" :> <<"n1", "n2">>) @@ ("n1" :> <<>>)
                                   @@ ("n2" :> <<"n3">>) @@ ("n3" :> <<>>)),
                 RootWebArea,
                 ("n1" :> first) @@ ("n2" :> Container("list"))
                 @@ ("n3" :> ListItem(Some(<<"I", "?">>), NoProps))) :
            first \in BlockTemplates \cup InlineTemplates}

InitSpacing ==
    /\ OuterIdle
    /\ axtree \in SpacingTrees
    /\ WalkIdle /\ IterIdle /\ AxInit /\ MdIdle
    /\ CleanupIdle

NextSpacing == Convert \/ ConvertNode \/ AfterChildren \/ CleanupOutput

SpecSpacing == InitSpacing /\ [][NextSpacing]_vars

\* how the block units of these trees begin: a heading, a paragraph, a blockquote, a
\* fenced code block, a separator, a list
UnitStarts ==
    {<<"#", " ", "T">>, <<"P">>, <<">", " ", "Q">>, <<BQ, BQ, BQ, NL, "c">>, <<"-", "-", "-">>, <<"-", " ", "I">>}

StartsAt(s, i, p) == i + Len(p) - 1 <= Len(s) /\ SubSeq(s, i, i + Len(p) - 1) = p

\* C23: wherever a block unit begins in the output buffer, it begins the buffer or the
\* two characters before it are newlines.
C23_BlockSpacing ==
    \A p \in UnitStarts :
        \A i \in 1..Len(converter.output) :
            StartsAt(converter.output, i, p) =>
                \/ i = 1
                \/ /\ i > 2
                   /\ converter.output[i - 1] = NL
                   /\ converter.output[i - 2] = NL

\* ------------------------------------------------------------ scored fallback
\* Pages that no priority selector matches, of one to MaxPageBlocks blocks that differ
\* in tag, in paragraphs and in text length.
ScoreBlocks ==
    {Element("div", NoAttrs,
             <<Element("p", NoAttrs, <<Text(Chars("d", CandidateLength + 1))>>)>>),
     Element("div", NoAttrs, <<Text(Chars("e", CandidateLength + 1))>>),
     Element("section", NoAttrs, <<Text(Chars("f", CandidateLength + 1))>>),
     Element("p", NoAttrs, <<Text(Chars("g", CandidateLength + 1))>>),
     Element("p", NoAttrs, <<Text(Chars("c", CandidateLength))>>),
     Element("aside", NoAttrs, <<Text(Chars("h", MeaningfulLength + 1))>>)}

ScorePages ==
    {Element("html", NoAttrs, <<Head_, Element("body", NoAttrs, kids)>>) :
        kids \in UNION {[1..n -> ScoreBlocks] : n \in 1..MaxPageBlocks}}

InitScore ==
    /\ axtree = EmptyTree
    /\ WalkIdle /\ IterIdle /\ AxIdle /\ CleanupIdle
    /\ page \in ScorePages
    /\ ExtractInit
    /\ PlainIdle /\ AfterPlainIdle
    /\ document = Element("html", NoAttrs, <<>>)
    /\ base_url = HttpBase
    /\ md_state = NewRender
    /\ md_stack = <<>>
    /\ md_pc = "idle"

SpecScore == InitScore /\ [][NextExtract]_vars

RECURSIVE RetainedFrom(_, _)
\* the candidates: every element at or below `element` that lies in no excluded element
\* and has more than 50 bytes of trimmed text, with its score at its depth
RetainedFrom(element, depth) ==
    IF IsExcluded(element) THEN {}
    ELSE (IF len(trim(text_of(element))) > CandidateLength
          THEN {[html |-> element, score |-> score_of(element, depth)]}
          ELSE {})
         \cup UNION {RetainedFrom(element.children[i], depth + 1) :
                        i \in {i \in 1..Len(element.children) :
                                  element.children[i].kind = "element"}}

Retained == RetainedFrom(Bodies[1], 0)

\* C24: when the scored fallback has candidates, the fragment find_main_content returns
\* is that of a candidate of the highest score among all of them.
C24_MaximalCandidate ==
    (found # None /\ priority_hits(page) = {} /\ Bodies # <<>> /\ Retained # {}) =>
        /\ found[1].ok
        /\ \E c \in Retained :
              /\ c.html = found[1].value
              /\ \A o \in Retained : o.score <= c.score

\* --------------------------------------------------------------- nested lists
\* A list of three items A, B, E whose second item holds a list of two items C, D: each
\* list ordered or not, the second item with no text of its own, with a name, or with
\* a text child.
NestedVariants ==
    [outer : BOOLEAN, inner : BOOLEAN, own : {"none", "name", "child"}]

Item(name, ordered) ==
    ListItem(name, IF ordered THEN Props({"SetSize", "PosInSet"}) ELSE NoProps)

NestedTree(v) ==
    MkTree(Shape(Some("n0"),
                 ("n0" :> <<"l1">>) @@ ("l1" :> <<"a", "b", "e">>) @@ ("a" :> <<>>)
                 @@ ("b" :> IF v.own = "child" THEN <<"t", "l2">> ELSE <<"l2">>)
                 @@ ("e" :> <<>>) @@ ("l2" :> <<"c", "d">>) @@ ("c" :> <<>>)
                 @@ ("d" :> <<>>)
                 @@ (IF v.own = "child" THEN "t" :> <<>> ELSE <<>>)),
           RootWebArea,
           ("l1" :> Container("list")) @@ ("l2" :> Container("list"))
           @@ ("a" :> Item(Some(<<"A">>), v.outer))
           @@ ("b" :> Item(IF v.own = "name" THEN Some(<<"B">>) ELSE None, v.outer))
           @@ ("e" :> Item(Some(<<"E">>), v.outer))
           @@ ("c" :> Item(Some(<<"C">>), v.inner))
           @@ ("d" :> Item(Some(<<"D">>), v.inner))
           @@ ("t" :> StaticText(<<"B">>)))

ListTag(ordered) == IF ordered THEN "ol" ELSE "ul"

NestedDocument(v) ==
    Element("html", NoAttrs,
        <<Element(ListTag(v.outer), NoAttrs,
            <<Li(<<"A">>),
              Element("li", NoAttrs,
                      (IF v.own = "none" THEN <<>> ELSE <<Text(<<"B">>)>>)
                      \o <<Element(ListTag(v.inner), NoAttrs, <<Li(<<"C">>), Li(<<"D">>)>>)>>),
              Li(<<"E">>)>>)>>)

InitNested ==
    /\ OuterIdle
    /\ WalkIdle /\ IterIdle /\ CleanupIdle
    /\ \/ /\ axtree \in {NestedTree(v) : v \in NestedVariants}
          /\ AxInit
          /\ MdIdle
       \/ /\ axtree = EmptyTree
          /\ AxIdle
          /\ document \in {NestedDocument(v) : v \in NestedVariants}
          /\ base_url = AboutBlank
          /\ MdInit

NextNested ==
    \/ Convert \/ ConvertNode \/ AfterChildren \/ CleanupOutput
    \/ HtmlToMarkdownWithBase \/ ConvertText \/ ConvertTag \/ AfterTag \/ CleanMarkdown

SpecNested == InitNested /\ [][NextNested]_vars

\* the marker of the k-th item of a list
Marker(ordered, k) == IF ordered THEN to_string(k) \o <<".", SP>> ELSE <<"-", SP>>

\* the item lines of a variant: A and B numbered 1 and 2, C and D numbered 1 and 2 and
\* indented by two spaces, E numbered 3
NestedLines(v) ==
    <<Marker(v.outer, 1) \o <<"A">>,
      Marker(v.outer, 2) \o (IF v.own = "none" THEN <<>> ELSE <<"B">>),
      <<SP, SP>> \o Marker(v.inner, 1) \o <<"C">>,
      <<SP, SP>> \o Marker(v.inner, 2) \o <<"D">>,
      Marker(v.outer, 3) \o <<"E">>>>

NonBlankLines(str) == SelectSeq(lines(str), LAMBDA l : l # <<>>)

\* C25: in both renderers the lines of the rendered lists are the items in order, each
\* with the number of its place in its own list (or "- "), the nested items indented by
\* two spaces, and the item after the nested list numbered on from the item before it.
C25_ListNumbering ==
    \A v \in NestedVariants :
        /\ (axtree = NestedTree(v) /\ Converted)
              => NonBlankLines(converter.output) = NestedLines(v)
        /\ (document = NestedDocument(v) /\ md_pc = "converting" /\ md_stack = <<>>)
              => NonBlankLines(md_output) = NestedLines(v)

\* ---- C26
\* the rows of the input table that hold a header cell: a columnheader or rowheader node,
\* a th element
HeaderRows ==
    IF axtree # EmptyTree
    THEN LET rows == axtree.nodes["t"].child_ids IN
         {r \in 1..Len(rows) :
             \E c \in 1..Len(axtree.nodes[rows[r]].child_ids) :
                 axtree.nodes[axtree.nodes[rows[r]].child_ids[c]].role
                     \in {"columnheader", "rowheader"}}
    ELSE LET rows == document.children[1].children[1].children IN
         {r \in 1..Len(rows) :
             \E c \in 1..Len(rows[r].children) : rows[r].children[c].tag = "th"}

\* a line of pipes, spaces and dashes
IsSeparator(line) ==
    /\ \A i \in 1..Len(line) : line[i] \in {"|", SP, "-"}
    /\ \E i \in 1..Len(line) : line[i] = "-"

\* no cell of the input holds a newline, so that every row is rendered as one line
OneLineCells == \A r \in 1..Len(InputRows) : \A c \in 1..Len(InputRows[r]) :
                    ~contains(InputRows[r][c], <<NL>>)

\* C26: a rendered table with one header row has one separator line, and it is the line
\* after the header row's line, wherever the header row stands among the rows.
C26_SeparatorAfterHeader ==
    (TableIsRendered /\ OneLineCells /\ Cardinality(HeaderRows) = 1) =>
        LET h == CHOOSE r \in HeaderRows : TRUE IN
        /\ Cardinality({i \in 1..Len(TableLines) : IsSeparator(TableLines[i])}) = 1
        /\ h + 1 <= Len(TableLines)
        /\ IsSeparator(TableLines[h + 1])

\* ---- C27
\* the URL the history stands at, if it stands at one
CurrentUrl(h) == IF h.position >= 1 THEN vec_get(h.session_stack, h.position - 1) ELSE None

\* the last call was an add, made after at least one back
AddedAfterBack ==
    /\ hist_log # <<>>
    /\ hist_log[Len(hist_log)].op = "add"
    /\ \E i \in 1..(Len(hist_log) - 1) : hist_log[i].op = "back"

\* C27: the position never exceeds the length of the session stack; and right after an
\* add that follows one or more backs, can_go_forward is false, forward returns None,
\* back returns the URL the history stood at before the add, and the position is the
\* length of the session stack.
C27_AddDiscardsForward ==
    /\ [](history.position <= Len(history.session_stack))
    /\ [][AddedAfterBack' =>
            /\ ~can_go_forward(history')
            /\ forward(history').ret = None
            /\ back(history').ret = CurrentUrl(history)
            /\ history'.position = Len(history'.session_stack)]_vars

C27_Witness ==
    /\ [i \in DOMAIN hist_log |-> hist_log[i].op] = <<"add", "add", "back", "add">>
    /\ hist_log[1].arg # hist_log[2].arg
    /\ hist_log[3].ret = Some(hist_log[1].arg)
    /\ history.session_stack = <<hist_log[1].arg, hist_log[4].arg>>
    /\ history.position = 2

\* ================================================== fox-tui: tabs.rs, Tab
\* usize::saturating_sub
saturating_sub(a, b) == IF a >= b THEN a - b ELSE 0

\* Page::to_markdown
to_markdown(p) ==
    IF p.content # None
    THEN Unwrap(p.content).text
    ELSE clean_markdown(output_of(md_run(NewRender,
                                         md_convert_element(parse_fragment(p.html)),
                                         AboutBlank)))

RECURSIVE break_word(_, _)
\* textwrap breaks a word longer than the line into pieces of the line's width; a
\* piece that continues a word is glued to the piece before it
break_word(word, width) ==
    IF Len(word) <= width THEN <<[text |-> word, glued |-> FALSE]>>
    ELSE <<[text |-> SubSeq(word, 1, width), glued |-> FALSE]>>
         \o [i \in 1..Len(break_word(SubSeq(word, width + 1, Len(word)), width)) |->
               [break_word(SubSeq(word, width + 1, Len(word)), width)[i]
                   EXCEPT !.glued = TRUE]]

RECURSIVE wrap_first_fit(_, _, _)
\* textwrap's first-fit wrapping: a piece joins the line while the line stays within
\* the width
wrap_first_fit(pieces, line, width) ==
    IF pieces = <<>> THEN <<line>>
    ELSE LET piece == Head(pieces)
             joined == line \o (IF piece.glued THEN <<>> ELSE <<SP>>) \o piece.text
         IN IF Len(joined) <= width
            THEN wrap_first_fit(Tail(pieces), joined, width)
            ELSE <<line>> \o wrap_first_fit(Tail(pieces), piece.text, width)

\* textwrap::wrap(line, width) of a line whose words are separated by single spaces
wrap(line, width) ==
    LET words == split_whitespace(line)
        pieces == Concat([i \in 1..Len(words) |-> break_word(words[i], width)])
    IN IF pieces = <<>> THEN <<<<>>>>
       ELSE wrap_first_fit(Tail(pieces), Head(pieces).text, width)

\* Tab::wrap_content
wrap_content(tab, content) ==
    LET width == Max(saturating_sub(tab.viewport_width, 2), 20)
        ls == lines(content)
    IN Concat([i \in 1..Len(ls) |->
                 IF trim(ls[i]) = <<>> THEN <<<<>>>> ELSE wrap(ls[i], width)])

\* Tab::links
links(tab) ==
    IF tab.page # None /\ Unwrap(tab.page).content # None
    THEN Some(Unwrap(Unwrap(tab.page).content).links)
    ELSE None

\* Tab::load_page
load_page(tab, p) ==
    LET loaded == [tab EXCEPT !.rendered_lines = wrap_content(tab, to_markdown(p)),
                              !.page = Some(p),
                              !.scroll_offset = 0]
    IN [loaded EXCEPT !.selected_link =
           IF links(loaded) = None \/ Unwrap(links(loaded)) = <<>> THEN None ELSE Some(0)]

\* Tab::visible_lines: the bounds of the slice &rendered_lines[scroll_offset..end], which
\* aborts unless scroll_offset <= end <= rendered_lines.len()
visible_lines(tab) ==
    LET end == Min(tab.scroll_offset + tab.viewport_height, Len(tab.rendered_lines))
    IN IF tab.scroll_offset <= end /\ end <= Len(tab.rendered_lines)
       THEN Ok(SubSeq(tab.rendered_lines, tab.scroll_offset + 1, end))
       ELSE Err("panic")

\* Tab::scroll_down
scroll_down(tab, n) ==
    LET max == saturating_sub(Len(tab.rendered_lines), tab.viewport_height)
    IN [tab EXCEPT !.scroll_offset = Min(tab.scroll_offset + n, max)]

\* Tab::scroll_up
scroll_up(tab, n) == [tab EXCEPT !.scroll_offset = saturating_sub(@, n)]

\* Tab::scroll_to_top
scroll_to_top(tab) == [tab EXCEPT !.scroll_offset = 0]

\* Tab::scroll_to_bottom
scroll_to_bottom(tab) ==
    [tab EXCEPT !.scroll_offset = saturating_sub(Len(tab.rendered_lines), tab.viewport_height)]

\* Tab::scroll_to_line
scroll_to_line(tab, line) ==
    LET max == saturating_sub(Len(tab.rendered_lines), tab.viewport_height)
    IN [tab EXCEPT !.scroll_offset =
           Min(saturating_sub(line, tab.viewport_height \div 2), max)]

\* Tab::set_viewport_size
set_viewport_size(tab, width, height) ==
    LET sized == [tab EXCEPT !.viewport_width = width,
                             !.viewport_height = saturating_sub(height, 4)]
    IN IF tab.page # None
       THEN [sized EXCEPT !.rendered_lines =
                wrap_content(sized, to_markdown(Unwrap(tab.page)))]
       ELSE sized

\* TabManager::current
current(m) == m.tabs[m.current + 1]

\* a call on the current tab of the manager
OnCurrent(op, index, tab) ==
    /\ tab_manager' = [tab_manager EXCEPT !.tabs[tab_manager.current + 1] = tab]
    /\ UNCHANGED tab_serial
    /\ Called(op, index)

LoadPage(p) == OnCurrent("load_page", 0, load_page(current(tab_manager), p))

SetViewportSize(width, height) ==
    OnCurrent("set_viewport_size", height,
              set_viewport_size(current(tab_manager), width, height))

ScrollDown(n) == OnCurrent("scroll_down", n, scroll_down(current(tab_manager), n))

ScrollUp(n) == OnCurrent("scroll_up", n, scroll_up(current(tab_manager), n))

ScrollToTop == OnCurrent("scroll_to_top", 0, scroll_to_top(current(tab_manager)))

ScrollToBottom == OnCurrent("scroll_to_bottom", 0, scroll_to_bottom(current(tab_manager)))

ScrollToLine(line) ==
    OnCurrent("scroll_to_line", line, scroll_to_line(current(tab_manager), line))

\* -------------------------------------------------------------------- scroll
\* Every sequence of calls on a Tab::new(): pages of one long word, of several words and
\* of HTML, terminals of two widths and three heights, the scroll distances of the keys
\* (one line, half a viewport, a viewport) and every line of the content.
LongWord == repeat(<<"a">>, 50)

ScrollUrl == <<"h", "t", "t", "p", ":", "/", "/", "b", "/">>

ScrollPages ==
    {[url |-> ScrollUrl, title |-> None, html |-> Element("html", NoAttrs, <<>>),
      content |-> Some([text |-> text, title |-> None, links |-> <<>>])] :
         text \in {LongWord,
                   LongWord \o <<NL, NL>> \o LongWord \o <<SP>> \o LongWord \o <<NL>>}}
    \cup {[url |-> ScrollUrl, title |-> None,
           html |-> Element("p", NoAttrs, <<Text(LongWord \o <<SP>> \o LongWord)>>),
           content |-> None]}

TerminalWidths == {22, 80}
TerminalHeights == {4, 6, 28}

ScrollSteps(tab) == {1, tab.viewport_height \div 2, tab.viewport_height}

InitScroll == AllIdle

NextScroll ==
    \/ \E p \in ScrollPages : LoadPage(p)
    \/ \E width \in TerminalWidths, height \in TerminalHeights : SetViewportSize(width, height)
    \/ \E n \in ScrollSteps(current(tab_manager)) : ScrollDown(n)
    \/ \E n \in ScrollSteps(current(tab_manager)) : ScrollUp(n)
    \/ ScrollToTop
    \/ ScrollToBottom
    \/ \E line \in 0..Len(current(tab_manager).rendered_lines) : ScrollToLine(line)

SpecScroll == InitScroll /\ [][NextScroll]_vars

\* C28: in every state of a tab reached by load_page, set_viewport_size and the scroll
\* calls, scroll_offset is at most rendered_lines.len() saturating-minus viewport_height,
\* and visible_lines slices a valid range and does not abort.
C28_ScrollWithinContent ==
    LET tab == current(tab_manager) IN
    /\ tab.scroll_offset
          <= saturating_sub(Len(tab.rendered_lines), tab.viewport_height)
    /\ visible_lines(tab).ok

\* ------------------------------------------------------- nested pre and code
\* html_to_markdown over documents <outer>a<inner>b  e</inner>  c  d</outer>, and the
\* same with the inner element one level deeper, for every pair of a pre, a code, an
\* emphasis and a div: the text after the inner element holds runs of spaces.
NestTags == {"pre", "code", "em", "div"}

FollowingText == <<" ", " ", "c", " ", " ", "d">>

NestedIn(outer, mid, inner) ==
    LET innermost == Element(inner, NoAttrs, <<Text(<<"b", " ", " ", "e">>)>>)
        between == IF mid = "" THEN innermost ELSE Element(mid, NoAttrs, <<innermost>>)
    IN Element("html", NoAttrs,
               <<Element(outer, NoAttrs, <<Text(<<"a">>), between, Text(FollowingText)>>)>>)

NestDocuments ==
    {NestedIn(outer, mid, inner) : outer \in NestTags, mid \in {"", "em"}, inner \in NestTags}

InitVerbatim ==
    /\ axtree = EmptyTree
    /\ OuterIdle
    /\ WalkIdle /\ IterIdle /\ AxIdle /\ CleanupIdle
    /\ document \in NestDocuments
    /\ base_url = AboutBlank
    /\ MdInit

NextVerbatim ==
    HtmlToMarkdownWithBase \/ ConvertText \/ ConvertTag \/ AfterTag \/ CleanMarkdown

SpecVerbatim == InitVerbatim /\ [][NextVerbatim]_vars

\* the renderer is about to handle an element
AtElement ==
    /\ md_pc = "converting"
    /\ md_stack # <<>>
    /\ Head(md_stack).op = "convert_tag"

\* the renderer's state when the handling of that element has returned
Handled == md_run(md_state, <<Head(md_stack)>>, base_url)

\* C29: handling an element leaves in_pre and in_code as they were before it, and the
\* text that follows a nested pre or code element inside a pre or code element that is
\* still open is emitted verbatim.
C29_FlagsRestored ==
    /\ AtElement =>
          /\ Handled.ctx.in_pre = md_state.ctx.in_pre
          /\ Handled.ctx.in_code = md_state.ctx.in_code
    /\ (/\ md_pc = "done"
        /\ document.children[1].tag \in {"pre", "code"}) =>
          contains(output_of(md_state), FollowingText)

\* ============================================== fox-tui: app.rs, navigation
MaxVisits == 3

\* navigate_internal: a URL without a scheme is given https
normalize_url(url) == IF contains(url, <<":", "/", "/">>) THEN url ELSE <<"h", "t", "t", "p", "s", ":", "/", "/">> \o url

\* Url::parse(url).to_string() of an http or https URL without port, query or
\* fragment: an empty path is written "/"
url_to_string(url) ==
    LET rest == SubSeq(url, find(url, <<":", "/", "/">>) + 3, Len(url))
    IN IF contains(rest, <<"/">>) THEN url ELSE url \o <<"/">>

\* Fetcher::fetch(url) as the application sees it: the page of the URL when the URL can
\* be reached, an error when it cannot
fetch(url, reachable) ==
    IF reachable
    THEN Ok([url |-> url_to_string(url), title |-> Some(url),
             html |-> Element("html", NoAttrs, <<>>),
             content |-> Some([text |-> url, title |-> None, links |-> <<>>])])
    ELSE Err(<<"n", "e", "t", "w", "o", "r", "k", " ", "e", "r", "r", "o", "r">>)

\* App::navigate_internal, on the App's tabs, history and status
navigate_internal(app, url, add_to_history, reachable) ==
    LET normalized == normalize_url(url)
        result == fetch(normalized, reachable)
    IN IF result.ok
       THEN [tabs |-> [app.tabs EXCEPT !.tabs[app.tabs.current + 1] =
                          load_page(@, result.value)],
             history |-> IF add_to_history
                         THEN add(app.history, normalized, result.value.title)
                         ELSE app.history,
             status |-> None]
       ELSE [app EXCEPT !.status = Some(<<"E", "r", "r", "o", "r", ":", " ">> \o result.value)]

\* App::handle_normal_key, KeyCode::Char('H')
key_back(app, reachable) ==
    LET went == back(app.history) IN
    IF went.ret # None
    THEN navigate_internal([app EXCEPT !.history = went.h], Unwrap(went.ret), FALSE,
                           reachable)
    ELSE [app EXCEPT !.history = went.h]

\* App::handle_normal_key, KeyCode::Char('L')
key_forward(app, reachable) ==
    LET went == forward(app.history) IN
    IF went.ret # None
    THEN navigate_internal([app EXCEPT !.history = went.h], Unwrap(went.ret), FALSE,
                           reachable)
    ELSE [app EXCEPT !.history = went.h]

\* the App's tabs, history and status
TheApp == [tabs |-> tab_manager, history |-> history, status |-> status]

app_rest ==
    <<axtree, walk_vars, iter_vars, ax_vars, cl_vars, md_vars, ex_vars, pl_vars, fetch_vars,
      hist_log, tab_prev, tab_call, tab_serial>>

AppBecomes(app) ==
    /\ tab_manager' = app.tabs
    /\ history' = app.history
    /\ status' = app.status
    /\ UNCHANGED app_rest

\* App::navigate
Navigate(url) ==
    /\ Len(history.entries) < MaxVisits
    /\ \E reachable \in BOOLEAN : AppBecomes(navigate_internal(TheApp, url, TRUE, reachable))
    /\ key' = None

KeyBack ==
    /\ \E reachable \in BOOLEAN : AppBecomes(key_back(TheApp, reachable))
    /\ key' = Some("H")

KeyForward ==
    /\ \E reachable \in BOOLEAN : AppBecomes(key_forward(TheApp, reachable))
    /\ key' = Some("L")

\* ---------------------------------------------------------------- navigation
\* Every sequence of navigations to two URLs, one of them typed without its scheme, and
\* of H and L keys on a new App, each fetch succeeding or failing, with at most
\* MaxVisits pages visited.
AppUrls == {<<"h", "t", "t", "p", "s", ":", "/", "/", "a", "/">>, <<"b">>}

InitApp == AllIdle

NextApp ==
    \/ \E url \in AppUrls : Navigate(url)
    \/ KeyBack
    \/ KeyForward

SpecApp == InitApp /\ [][NextApp]_vars

\* the fetch of the last navigation failed
FetchFailed == status # None /\ starts_with(Unwrap(status), <<"E", "r", "r", "o", "r", ":", " ">>)

\* the URL of the page the current tab shows
LoadedUrl ==
    IF current(tab_manager).page = None THEN None
    ELSE Some(Unwrap(current(tab_manager).page).url)

\* C30: when the H or L key is handled and the fetch of the URL that history.back() or
\* forward() returned fails, the history position is what it was before the key; in
\* every state the URL loaded in the tab is the session-stack entry at the position.
C30_PositionFollowsPage ==
    /\ [][(key' \in {Some("H"), Some("L")} /\ FetchFailed')
             => history'.position = history.position]_vars
    /\ [](history.position >= 1 =>
             LoadedUrl = Some(url_to_string(Unwrap(CurrentUrl(history)))))

=============================================================================
